---- MODULE Spec2Model ----
(***************************************************************************)
(* The strace-log parsing engine of etrace: the pid tracker, the exec      *)
(* timing accumulator with its "N slowest" retention, and the file-access  *)
(* correlation, filtering and listing of TraceExecveWithFiles.             *)
(*                                                                         *)
(* Specifications that share the state:                                    *)
(*   Spec        TraceExecveTimings   (internal/strace, timing mode)       *)
(*   SpecFiles   TraceExecveWithFiles (internal/strace, file mode), called *)
(*               with any compiled regexes and any exclude list            *)
(*   SpecCmdFile the file command: cmdFile.Execute checks its options and  *)
(*               then calls TraceExecveWithFiles                           *)
(*   SpecShapes  the scan loop of TraceExecveWithFiles on logs with every  *)
(*               line shape of the path matchers                           *)
(*   SpecReport  the file list of TraceExecveWithFiles, built from any     *)
(*               correlated process records                                *)
(*   SpecRetain  ExecveTiming.addExeRuntime called with arbitrary samples  *)
(*   SpecDisplay ExecveTiming.Display called on any list of samples        *)
(*   SpecExec    one traced run of the exec command: cmdExec.Execute and   *)
(*               the goroutine that reads the strace fifo                  *)
(*   SpecExecFair SpecExec under the schedule of a run: enabled steps are  *)
(*               taken and strace exits                                    *)
(*   SpecOwner   TraceExecveWithFiles on longer logs of exec and open      *)
(*               lines                                                     *)
(*   SpecEnsure  files.EnsureExistsAndOpen on any file system              *)
(*   SpecSudo    commands.AddSudoIfNeeded for any user and sudo lookup     *)
(*   SpecWindow  cmdFile.Execute from cmd.Start() through the wait for the *)
(*               window to its output                                      *)
(*                                                                         *)
(* Time.  strace -ttt timestamps are parsed into float64.  For epoch       *)
(* values in [2^30, 2^31) consecutive float64 values are 2^-22 s apart, so *)
(* a timestamp is Base + t * 2^-22 s for a whole number t; the model keeps *)
(* t (a "tick") and takes Base as the origin of time.Time.  Differences of *)
(* such floats are exact, and so is their product with 1e9, hence          *)
(*   nanoseconds(t) = trunc(t * 10^9 / 2^22) = trunc(t * 5^9 / 2^13).      *)
(* A tick of 0 is the float 0.0, which the scan loops use as "start not    *)
(* yet read"; log lines carry ticks >= 1.                                  *)
(***************************************************************************)
EXTENDS Integers, Sequences, FiniteSets, TLC

\* ---- bounds of the model ----
MaxLines == 4
MaxFileLines == 3
MaxTime == 3
MaxCap == 1
MaxAdds == 4
MaxDur == 3
MaxExecLines == 2
MaxShown == 3
MaxShapeLines == 2
MaxOwnerLines == 4

Pids == {1, 2}
Times == 1..MaxTime
Exes == {"/a", "/b"}
Paths == {"/x", "/y (deleted)"}

\* paths of the logs with every line shape: "/z(deleted)" ends in the marker
\* without the space before it
ShapePaths == Paths \cup {"/z(deleted)"}

\* the directory of an fd<path> argument and the relative paths that follow it
ShapeDirs == {"/d"}

ShapeRels == {"r", "r (deleted)"}

\* program images of the file-mode logs: one of them is a snapd helper
FileExes == {"/a", "/usr/lib/snapd/snap-exec"}

\* the --file-regex and --program-regex settings of the model; "" is "not
\* given" and "(" does not compile
FileRegexOpts == {"", "^/x$", "("}
ProgramRegexOpts == {"", "("}

\* exclude lists a caller of TraceExecveWithFiles passes; "[" is a malformed glob
DefaultExcludeList ==
    <<"/usr/bin/snap", "/usr/lib/snapd/*", "/sbin/apparmor_parser",
      "/snap/core/*/usr/bin/snap", "/snap/core/*/usr/lib/snapd/*",
      "/snap/snapd/*/usr/bin/snap", "/snap/snapd/*/usr/lib/snapd/*">>
ExcludeLists == {DefaultExcludeList, <<>>, <<"[">>}

\* float64(time.Second) * 2^-22 = 5^9 / 2^13 nanoseconds per tick
SecNum == 1953125
SecDen == 8192

VARIABLES
    pc,               \* "cli" | "call" | "scan" | "report" | "done" | "error" |
                      \* "rejected" | "api"
    x,                \* the options of the file command (cmdFile)
    mode,             \* "timing" (tracer is *ExecveTiming) | "files" (*ExecvePaths)
    nSlowestSamples,  \* ExecveTiming.nSlowestSamples
    ExeRuntimes,      \* ExecveTiming.ExeRuntimes
    Processes,        \* ExecvePaths.Processes
    pathProcesses,    \* ExecvePaths.pathProcesses
    allFilesSet,      \* ExecvePaths.allFilesSet of the earlier version: the paths accessed
    pidToExeStart,    \* pidTracker.pidToExeStart
    TotalTime,        \* ExecveTiming.TotalTime / ExecvePaths.TotalTime
    start, startPID,  \* locals of the scan loop
    line,             \* the last line read
    nLines,           \* number of lines read
    fileRegex, programRegex,      \* arguments of TraceExecveWithFiles
    excludeListProgramPatterns,   \* (compiled regexes are kept as their source)
    AllFiles,         \* ExecvePaths.AllFiles
    result, err,      \* what the entry point returned: "none" before it returns,
                      \* then "trace" or "nil", and the error ("" is nil)
    \* one traced run of cmdExec.Execute
    main,             \* where cmdExec.Execute is
    reader,           \* where the goroutine reading the fifo is: "opening",
                      \* "blocked" (in the open), "running" (the fifo is open),
                      \* "sent", "finished"
    doneCh,           \* the channel: its buffer (capacity 1) and whether it is closed
    fw,               \* Execute's own write end of the fifo: "open", "closed", and
                      \* "removed" once the directory of the fifo is removed
    cmd,              \* the strace command and its tracees
    slg,              \* Execute's local: "nil" or the *ExecveTiming it received
    out,              \* what Display wrote
    \* the helpers of internal/files and internal/commands
    call,             \* the helper called last and its arguments
    fs,               \* the file system: what each name is
    file,             \* the *os.File a helper returned (NilFile if none)
    userCurrent,      \* what user.Current() returns
    sudoLookup,       \* what exec.LookPath("sudo") returns
    command,          \* the exec.Cmd handed to AddSudoIfNeeded
    \* the wait for the window in cmdFile.Execute
    currentCmd,       \* the global options: NoWindowWait, WindowWaitGlobalTimeout,
                      \* JSONOutput, RestoreScript
    ctx,              \* the context of the wait: "none", "live", "expired"
    window,           \* a window matching the specification is visible
    tries,            \* WaitForWindow's loop index i
    wids,             \* the window ids WaitForWindow returned
    waitErr,          \* the error WaitForWindow returned
    errs,             \* the errors logged with logError
    \* history variables (not in the program)
    opens,            \* number of addPid calls so far
    added,            \* every sample handed to addExeRuntime, in call order
    firstLine,        \* the first line read
    lastExec          \* per pid: the latest exec event not followed by a
                      \* termination event of that pid, from the input alone

vars == <<pc, x, mode, nSlowestSamples, ExeRuntimes, Processes, pathProcesses, allFilesSet,
          pidToExeStart, TotalTime, start, startPID, line, nLines,
          fileRegex, programRegex, excludeListProgramPatterns, AllFiles, result, err,
          main, reader, doneCh, fw, cmd, slg, out,
          call, fs, file, userCurrent, sudoLookup, command,
          currentCmd, ctx, window, tries, wids, waitErr, errs,
          opens, added, firstLine, lastExec>>

\* the arguments and the file list, which the scan loops leave alone
args == <<fileRegex, programRegex, excludeListProgramPatterns, AllFiles>>

\* the state of the helpers, which the parse and the commands leave alone
waitVars == <<currentCmd, ctx, window, tries, wids, waitErr, errs>>

osVars == <<call, fs, file, userCurrent, sudoLookup, command, waitVars>>

\* the state of the exec command around the parse, which the parse leaves alone
execVars == <<main, reader, doneCh, fw, cmd, slg, out, osVars>>

\* ---- sequences ----
Remove(s, i) == SubSeq(s, 1, i - 1) \o SubSeq(s, i + 1, Len(s))

Range(s) == {s[i] : i \in DOMAIN s}

\* ---- time conversions ----
unixFloatSecondsToTime(t) == (t * SecNum) \div SecDen

\* time.Duration(totalSec * float64(time.Second)): truncation toward zero
DurationOf(totalSec) ==
    IF totalSec >= 0 THEN (totalSec * SecNum) \div SecDen
    ELSE -(((-totalSec) * SecNum) \div SecDen)

\* ---- log lines ----
NoLine == [kind |-> "none", pid |-> 0, time |-> 0, exe |-> "", sigPid |-> 0, path |-> "", fd |-> ""]

\* <pid> <t> execve("<exe>", [...], 0x... /* n vars */) = 0
ExecLine(p, t, e) == [kind |-> "execve", pid |-> p, time |-> t, exe |-> e, sigPid |-> 0, path |-> "", fd |-> ""]

\* <pid> <t> --- SIGCHLD {si_signo=SIGCHLD, ..., si_pid=<sigPid>, ...} ---
SignalLine(p, t, sp) == [kind |-> "signal", pid |-> p, time |-> t, exe |-> "", sigPid |-> sp, path |-> "", fd |-> ""]

\* <pid> <t> +++ killed by SIGKILL +++
SigkillLine(p, t) == [kind |-> "sigkill", pid |-> p, time |-> t, exe |-> "", sigPid |-> 0, path |-> "", fd |-> ""]

\* <pid> <t> openat(AT_FDCWD, "<path>", O_RDONLY) = 3
OpenatLine(p, t, f) == [kind |-> "openat", pid |-> p, time |-> t, exe |-> "", sigPid |-> 0, path |-> f, fd |-> ""]

\* <pid> <t> openat(9</d>, "r", O_RDONLY) = 10</d/r>   (dir = "/d", rel = "r")
FdPathLine(p, t, dir, rel) ==
    [kind |-> "fdpath", pid |-> p, time |-> t, exe |-> "", sigPid |-> 0, path |-> rel, fd |-> dir]

\* <pid> <t> ftruncate(26</x>, 8192) = 0   (f = "/x")
FdLine(p, t, f) ==
    [kind |-> "fd", pid |-> p, time |-> t, exe |-> "", sigPid |-> 0, path |-> "", fd |-> f]

\* <pid> <t> newfstatat(-1, "<f>", 0x7ffe17b21970, 0) = 0
AbsLine(p, t, f) ==
    [kind |-> "abs", pid |-> p, time |-> t, exe |-> "", sigPid |-> 0, path |-> f, fd |-> ""]

\* <pid> <t> readlink("<f>", ""..., 4095) = 30
AbsFirstLine(p, t, f) ==
    [kind |-> "absfirst", pid |-> p, time |-> t, exe |-> "", sigPid |-> 0, path |-> f, fd |-> ""]

\* <pid> <t> linkat(AT_FDCWD, "/x", 3</d>, "b", 0) = 0   (f = "/x", dir = "/d")
CwdFdLine(p, t, f, dir) ==
    [kind |-> "cwdfd", pid |-> p, time |-> t, exe |-> "", sigPid |-> 0, path |-> f, fd |-> dir]

\* <pid> <t> +++ exited with 0 +++
OtherLine(p, t) == [kind |-> "other", pid |-> p, time |-> t, exe |-> "", sigPid |-> 0, path |-> "", fd |-> ""]

\* a line that does not start with "<pid> <timestamp>", for instance
\* "strace: Process 7 attached"; t is only its place in the merged log
GarbageLine(t) == [kind |-> "garbage", pid |-> 0, time |-> t, exe |-> "", sigPid |-> 0, path |-> "", fd |-> ""]

\* variant: only a line that some matcher claims scans
Sscanf_claimedOnly(l) ==
    IF l.kind \in {"none", "garbage", "other"} THEN [ok |-> FALSE, pid |-> 0, time |-> 0]
    ELSE [ok |-> TRUE, pid |-> l.pid, time |-> l.time]

\* fmt.Sscanf(line, "%d %f ", &pid, &t): the empty line and a garbage line fail
Sscanf(l) ==
    IF l.kind \in {"none", "garbage"} THEN [ok |-> FALSE, pid |-> 0, time |-> 0]
    ELSE [ok |-> TRUE, pid |-> l.pid, time |-> l.time]

TimingLines(from) ==
    {ExecLine(p, t, e) : p \in Pids, t \in from..MaxTime, e \in Exes}
    \cup {SignalLine(p, t, sp) : p \in Pids, t \in from..MaxTime, sp \in Pids}
    \cup {SigkillLine(p, t) : p \in Pids, t \in from..MaxTime}
    \cup {OtherLine(p, t) : p \in Pids, t \in from..MaxTime}

FileLines(from) ==
    {ExecLine(p, t, e) : p \in Pids, t \in from..MaxTime, e \in FileExes}
    \cup {SignalLine(p, t, sp) : p \in Pids, t \in from..MaxTime, sp \in Pids}
    \cup {SigkillLine(p, t) : p \in Pids, t \in from..MaxTime}
    \cup {OtherLine(p, t) : p \in Pids, t \in from..MaxTime}
    \cup {OpenatLine(p, t, f) : p \in Pids, t \in from..MaxTime, f \in Paths}

\* every line shape of the path matchers, with the exec and termination lines
ShapeLines(from) ==
    {ExecLine(p, t, "/a") : p \in Pids, t \in from..MaxTime}
    \cup {SigkillLine(p, t) : p \in Pids, t \in from..MaxTime}
    \cup {OtherLine(p, t) : p \in Pids, t \in from..MaxTime}
    \cup {OpenatLine(p, t, f) : p \in Pids, t \in from..MaxTime, f \in ShapePaths}
    \cup {FdPathLine(p, t, dir, rel) : p \in Pids, t \in from..MaxTime,
                                      dir \in ShapeDirs, rel \in ShapeRels}
    \cup {FdLine(p, t, f) : p \in Pids, t \in from..MaxTime, f \in ShapePaths}
    \cup {AbsLine(p, t, f) : p \in Pids, t \in from..MaxTime, f \in ShapePaths}
    \cup {AbsFirstLine(p, t, f) : p \in Pids, t \in from..MaxTime, f \in ShapePaths}
    \cup {CwdFdLine(p, t, f, dir) : p \in Pids, t \in from..MaxTime,
                                    f \in ShapePaths, dir \in ShapeDirs}

\* ---- line matchers: <<>> is "no match", else m[i] is Go's match[i] ----
\* (no line shape above is an execveat call)
execveRE(l) == IF l.kind = "execve" THEN <<l.pid, l.time, l.exe>> ELSE <<>>

execveatRE(l) == <<>>

sigChldTermRE(l) == IF l.kind = "signal" THEN <<l.time, "CHLD", l.sigPid>> ELSE <<>>

sigkillRE(l) == IF l.kind = "sigkill" THEN <<l.pid, l.time>> ELSE <<>>

\* "(" followed at once by an fd<path> argument and then a quoted string
fdAndPathRE(l) ==
    IF l.kind = "fdpath" THEN <<l.pid, l.time, "openat", l.fd, l.path>> ELSE <<>>

\* an fd<path> argument anywhere before the "= <n>"
fdRE(l) ==
    IF l.kind = "fdpath" THEN <<l.pid, l.time, "openat", l.fd>>
    ELSE IF l.kind = "fd" THEN <<l.pid, l.time, "ftruncate", l.fd>>
    ELSE IF l.kind = "cwdfd" THEN <<l.pid, l.time, "linkat", l.fd>>
    ELSE <<>>

\* AT_FDCWD followed by a quoted string
absPathWithCWDRE(l) ==
    IF l.kind = "openat" THEN <<l.pid, l.time, "openat", l.path>>
    ELSE IF l.kind = "cwdfd" THEN <<l.pid, l.time, "linkat", l.path>>
    ELSE <<>>

\* the first quoted string after a first argument that is not a string
absPathRE(l) ==
    IF l.kind = "openat" THEN <<l.pid, l.time, "openat", l.path>>
    ELSE IF l.kind = "cwdfd" THEN <<l.pid, l.time, "linkat", l.path>>
    ELSE IF l.kind = "fdpath" THEN <<l.pid, l.time, "openat", l.path>>
    ELSE IF l.kind = "abs" THEN <<l.pid, l.time, "newfstatat", l.path>>
    ELSE <<>>

\* variant: an execve line is not a path-first line
absPathFirstRE_noExec(l) == <<>>

\* a quoted string as the first argument
absPathFirstRE(l) ==
    IF l.kind = "execve" THEN <<l.pid, l.time, "execve", l.exe>>
    ELSE IF l.kind = "absfirst" THEN <<l.pid, l.time, "readlink", l.path>>
    ELSE <<>>

\* ---- regular expressions and globs of the caller ----
\* regexp.Compile on the settings of the model
regexpCompile(str) == [ok |-> str # "(", re |-> str]

\* (*Regexp).FindString: the text of the leftmost match, "" when there is none.
\* ".*" matches the whole of a one-line string; "^/x$" and "^/a$" match only
\* the string they spell.
FindString(re, str) ==
    IF re = ".*" THEN str
    ELSE IF re = "^/x$" THEN (IF str = "/x" THEN "/x" ELSE "")
    ELSE IF re = "^/a$" THEN (IF str = "/a" THEN "/a" ELSE "")
    ELSE ""

\* the (pattern, name) pairs of the model in which a "*" pattern matches
StarMatches == {<<"/usr/lib/snapd/*", "/usr/lib/snapd/snap-exec">>}

\* variant: a "*" also stands for nothing but itself
filepathMatch_literal(pattern, name) ==
    IF pattern = "[" THEN [matches |-> FALSE, err |-> "syntax error in pattern"]
    ELSE [matches |-> pattern = name, err |-> ""]

\* filepath.Match: "[" with no closing bracket is ErrBadPattern for every name
filepathMatch(pattern, name) ==
    IF pattern = "[" THEN [matches |-> FALSE, err |-> "syntax error in pattern"]
    ELSE [matches |-> (pattern = name \/ <<pattern, name>> \in StarMatches), err |-> ""]

\* byte order of the path strings of the model
PathOrder ==
    <<"/a", "/b", "/d", "/d/r", "/d/r (deleted)", "/usr/lib/snapd/snap-exec",
      "/x", "/y", "/y (deleted)", "/z(deleted)">>

PathLess(a, b) ==
    \E i, j \in DOMAIN PathOrder : PathOrder[i] = a /\ PathOrder[j] = b /\ i < j

\* ---- pidTracker ----
\* variant: a missing pid reads as an entry with a placeholder image
getPid_phantom(pt, pid) ==
    IF pid \in DOMAIN pt THEN pt[pid] ELSE [start |-> 0, exe |-> "?", id |-> 0]

getPid(pt, pid) == IF pid \in DOMAIN pt THEN pt[pid] ELSE [start |-> 0, exe |-> "", id |-> 0]

\* variant: an entry that is already there is kept
addPid_firstWins(tr, pid, startTime, exe) ==
    [tr EXCEPT
        !.pidToExeStart = [p \in (DOMAIN tr.pidToExeStart) \cup {pid} |->
                              IF p \in DOMAIN tr.pidToExeStart
                              THEN tr.pidToExeStart[p]
                              ELSE [start |-> startTime, exe |-> exe, id |-> tr.opens + 1]],
        !.opens = @ + 1]

addPid(tr, pid, startTime, exe) ==
    [tr EXCEPT
        !.pidToExeStart = [p \in (DOMAIN tr.pidToExeStart) \cup {pid} |->
                              IF p = pid
                              THEN [start |-> startTime, exe |-> exe, id |-> tr.opens + 1]
                              ELSE tr.pidToExeStart[p]],
        !.opens = @ + 1]

\* variant: the entry stays in the map
deletePid_keeps(tr, pid) == tr

deletePid(tr, pid) ==
    [tr EXCEPT !.pidToExeStart = [p \in (DOMAIN tr.pidToExeStart) \ {pid} |-> tr.pidToExeStart[p]]]

\* ---- ExecveTiming ----
\* variant: the scan looks for the largest duration
RECURSIVE fastestFrom_slowest(_, _, _)
fastestFrom_slowest(rts, idx, fastest) ==
    IF idx > Len(rts) THEN fastest
    ELSE fastestFrom_slowest(rts, idx + 1,
                     IF rts[idx].TotalSec > rts[fastest].TotalSec THEN idx ELSE fastest)

\* variant: the scan compares with <= and so settles on the last smallest
RECURSIVE fastestFrom_lastTie(_, _, _)
fastestFrom_lastTie(rts, idx, fastest) ==
    IF idx > Len(rts) THEN fastest
    ELSE fastestFrom_lastTie(rts, idx + 1,
                     IF rts[idx].TotalSec <= rts[fastest].TotalSec THEN idx ELSE fastest)

\* the inner loop of prune from index idx on: the index of the first smallest TotalSec
RECURSIVE fastestFrom(_, _, _)
fastestFrom(rts, idx, fastest) ==
    IF idx > Len(rts) THEN fastest
    ELSE fastestFrom(rts, idx + 1,
                     IF rts[idx].TotalSec < rts[fastest].TotalSec THEN idx ELSE fastest)

\* variant: the loop runs while the length is at least the limit
RECURSIVE prune_belowLimit(_, _)
prune_belowLimit(rts, n) ==
    IF Len(rts) >= n /\ Len(rts) > 0
    THEN prune_belowLimit(Remove(rts, fastestFrom(rts, 1, 1)), n)
    ELSE rts

RECURSIVE prune(_, _)
prune(rts, n) ==
    IF Len(rts) > n THEN prune(Remove(rts, fastestFrom(rts, 1, 1)), n) ELSE rts

Sample(st, exe, totalSec, pid) ==
    [Start |-> unixFloatSecondsToTime(st), Exe |-> exe, TotalSec |-> DurationOf(totalSec), pid |-> pid]

\* variant: the list is pruned whatever the cap is
ExecveTiming_addExeRuntime_alwaysPrune(tr, st, exe, totalSec, pid) ==
    LET appended == Append(tr.ExeRuntimes, Sample(st, exe, totalSec, pid))
    IN [tr EXCEPT
           !.ExeRuntimes = prune(appended, IF nSlowestSamples > 0 THEN nSlowestSamples ELSE 0),
           !.added = Append(@, Sample(st, exe, totalSec, pid))]

ExecveTiming_addExeRuntime(tr, st, exe, totalSec, pid) ==
    LET appended == Append(tr.ExeRuntimes, Sample(st, exe, totalSec, pid))
    IN [tr EXCEPT
           !.ExeRuntimes = IF nSlowestSamples > 0 THEN prune(appended, nSlowestSamples) ELSE appended,
           !.added = Append(@, Sample(st, exe, totalSec, pid))]

\* nothing has been written
NoOutput == [printed |-> FALSE, rows |-> <<>>, TotalTime |-> 0]

\* int64(d / time.Microsecond): Go's integer division truncates toward zero
Microsecond == 1000

Quot(a, b) == IF a >= 0 THEN a \div b ELSE -((-a) \div b)

\* the orders sort.Slice may leave stt.ExeRuntimes in: the same samples, none
\* before one of an earlier Start (the sort is not stable)
SortedByStart(rts) ==
    LET n == Len(rts)
        perms == {f \in [1..n -> 1..n] : \A i, j \in 1..n : i # j => f[i] # f[j]}
    IN {[i \in 1..n |-> rts[f[i]]] : f \in
           {f \in perms : \A i, j \in 1..n : i < j => ~(rts[f[j]].Start < rts[f[i]].Start)}}

\* variant: the offsets are taken from the row before, not from the first row
DisplayRows_fromPrevious(sorted) ==
    [i \in DOMAIN sorted |->
        LET relativeStart == sorted[i].Start - sorted[IF i = 1 THEN 1 ELSE i - 1].Start
        IN [Start |-> Quot(relativeStart, Microsecond),
            Stop |-> Quot(relativeStart + sorted[i].TotalSec, Microsecond),
            Elapsed |-> sorted[i].TotalSec,
            Exec |-> sorted[i].Exe]]

\* the rows of the loop over the sorted stt.ExeRuntimes
DisplayRows(sorted) ==
    [i \in DOMAIN sorted |->
        LET relativeStart == sorted[i].Start - sorted[1].Start
        IN [Start |-> Quot(relativeStart, Microsecond),
            Stop |-> Quot(relativeStart + sorted[i].TotalSec, Microsecond),
            Elapsed |-> sorted[i].TotalSec,
            Exec |-> sorted[i].Exe]]

\* ExecveTiming.Display: nothing for an empty list, else the list is sorted in
\* place and written with the total time
ExecveTiming_Display ==
    IF ExeRuntimes = <<>>
    THEN out' = NoOutput /\ ExeRuntimes' = ExeRuntimes
    ELSE /\ ExeRuntimes' \in SortedByStart(ExeRuntimes)
         /\ out' = [printed |-> TRUE, rows |-> DisplayRows(ExeRuntimes'), TotalTime |-> TotalTime]

\* ---- ExecvePaths ----
ExecvePaths_addExeRuntime(tr, st, exe, totalSec, pid) ==
    [tr EXCEPT
        !.Processes = Append(@, [Start |-> unixFloatSecondsToTime(st), Exe |-> exe,
                                 RunDuration |-> DurationOf(totalSec),
                                 PathAccesses |-> <<>>, pid |-> pid]),
        !.added = Append(@, Sample(st, exe, totalSec, pid))]

\* the earlier version: e.addPathToList(path.Path), then the append
addProcessPathAccess_withList(tr, path) ==
    [tr EXCEPT !.allFilesSet = @ \cup {path.Path}, !.pathProcesses = Append(@, path)]

\* variant: an access is kept once per path, as in a set
addProcessPathAccess_oncePerPath(tr, path) ==
    IF \E k \in DOMAIN tr.pathProcesses : tr.pathProcesses[k].Path = path.Path
    THEN tr
    ELSE [tr EXCEPT !.pathProcesses = Append(@, path)]

addProcessPathAccess(tr, path) == [tr EXCEPT !.pathProcesses = Append(@, path)]

\* the execveTimingTracer interface: dispatch on the tracer's type
addExeRuntime(tr, st, exe, totalSec, pid) ==
    IF mode = "files" THEN ExecvePaths_addExeRuntime(tr, st, exe, totalSec, pid)
    ELSE ExecveTiming_addExeRuntime(tr, st, exe, totalSec, pid)

\* ---- handlers ----
\* variant: a second execve of a pid replaces the entry without closing it
handleExecMatch_noClose(tr, match) ==
    IF match = <<>> THEN tr
    ELSE addPid(tr, match[1], match[2], match[3])

handleExecMatch(tr, match) ==
    IF match = <<>> THEN tr
    ELSE LET pid == match[1]
             execStart == match[2]
             exe == match[3]
             live == getPid(tr.pidToExeStart, pid)
             tr1 == IF live.exe # ""
                    THEN addExeRuntime(tr, live.start, live.exe, execStart - live.start, pid)
                    ELSE tr
         IN addPid(tr1, pid, execStart, exe)

\* variant: the runtime is recorded and the entry stays live
handleSignalMatch_noDelete(tr, match) ==
    IF match = <<>> THEN tr
    ELSE LET sigTime == match[1]
             sigPid == match[3]
             live == getPid(tr.pidToExeStart, sigPid)
         IN IF live.exe # ""
            THEN addExeRuntime(tr, live.start, live.exe, sigTime - live.start, sigPid)
            ELSE tr

\* variant: the runtime is the signal time, not the time since the exec
handleSignalMatch_absolute(tr, match) ==
    IF match = <<>> THEN tr
    ELSE LET sigTime == match[1]
             sigPid == match[3]
             live == getPid(tr.pidToExeStart, sigPid)
         IN IF live.exe # ""
            THEN deletePid(addExeRuntime(tr, live.start, live.exe, sigTime, sigPid), sigPid)
            ELSE tr

handleSignalMatch(tr, match) ==
    IF match = <<>> THEN tr
    ELSE LET sigTime == match[1]
             sigPid == match[3]
             live == getPid(tr.pidToExeStart, sigPid)
         IN IF live.exe # ""
            THEN deletePid(addExeRuntime(tr, live.start, live.exe, sigTime - live.start, sigPid), sigPid)
            ELSE tr

\* variant: the runtime is recorded but the entry is not deleted
handleSigkillMatch_noDelete(tr, match) ==
    IF match = <<>> THEN tr
    ELSE LET pid == match[1]
             sigTime == match[2]
             live == getPid(tr.pidToExeStart, pid)
         IN IF live.exe # ""
            THEN addExeRuntime(tr, live.start, live.exe, sigTime - live.start, pid)
            ELSE tr

handleSigkillMatch(tr, match) ==
    IF match = <<>> THEN tr
    ELSE LET pid == match[1]
             sigTime == match[2]
             live == getPid(tr.pidToExeStart, pid)
         IN IF live.exe # ""
            THEN deletePid(addExeRuntime(tr, live.start, live.exe, sigTime - live.start, pid), pid)
            ELSE tr

\* strings.HasSuffix(p, "(deleted)") on the paths of the model
HasSuffixDeleted(p) == p \in {"/y (deleted)", "/d/r (deleted)", "/z(deleted)"}

\* strings.TrimSuffix(p, " (deleted)"): the suffix that goes begins with a space
TrimSuffixDeleted(p) ==
    IF p = "/y (deleted)" THEN "/y"
    ELSE IF p = "/d/r (deleted)" THEN "/d/r"
    ELSE p

\* if strings.HasSuffix(p, "(deleted)") { p = strings.TrimSuffix(p, " (deleted)") }
TrimDeleted(p) == IF HasSuffixDeleted(p) THEN TrimSuffixDeleted(p) ELSE p

\* filepath.Join of a clean directory and a clean relative path
Join(dir, rel) == dir \o "/" \o rel

\* the path handlers return [matched, tr]
handlePathMatchElem4(tr, match) ==
    IF match = <<>> THEN [matched |-> FALSE, tr |-> tr]
    ELSE [matched |-> TRUE,
          tr |-> addProcessPathAccess(tr, [Time |-> unixFloatSecondsToTime(match[2]),
                                           Path |-> TrimDeleted(match[4]), Syscall |-> match[3],
                                           pid |-> match[1]])]

handleFdAndPathMatch(tr, match) ==
    IF match = <<>> THEN [matched |-> FALSE, tr |-> tr]
    ELSE [matched |-> TRUE,
          tr |-> addProcessPathAccess(tr, [Time |-> unixFloatSecondsToTime(match[2]),
                                           Path |-> TrimDeleted(Join(match[4], match[5])),
                                           Syscall |-> match[3],
                                           pid |-> match[1]])]

handleAbsPathMatch(tr, match) ==
    IF match = <<>> THEN [matched |-> FALSE, tr |-> tr]
    ELSE [matched |-> TRUE,
          tr |-> addProcessPathAccess(tr, [Time |-> unixFloatSecondsToTime(match[2]),
                                           Path |-> match[4], Syscall |-> match[3],
                                           pid |-> match[1]])]

\* ---- the tracer object as one value ----
Tracer ==
    [ExeRuntimes |-> ExeRuntimes, Processes |-> Processes, pathProcesses |-> pathProcesses, allFilesSet |-> allFilesSet,
     pidToExeStart |-> pidToExeStart, opens |-> opens, added |-> added]

SetTracer(tr) ==
    /\ ExeRuntimes' = tr.ExeRuntimes
    /\ Processes' = tr.Processes
    /\ pathProcesses' = tr.pathProcesses
    /\ allFilesSet' = tr.allFilesSet
    /\ pidToExeStart' = tr.pidToExeStart
    /\ opens' = tr.opens
    /\ added' = tr.added

\* the exec and signal part of a scan-loop iteration
LifecycleStep(tr, l) ==
    handleSigkillMatch(
        handleSignalMatch(
            handleExecMatch(handleExecMatch(tr, execveRE(l)), execveatRE(l)),
            sigChldTermRE(l)),
        sigkillRE(l))

\* variant: no continue after a match, every matcher records what it finds
PathStep_noContinue(tr, l) ==
    LET r1 == handleFdAndPathMatch(tr, fdAndPathRE(l))
        r2 == handlePathMatchElem4(r1.tr, fdRE(l))
        r3 == handlePathMatchElem4(r2.tr, absPathWithCWDRE(l))
        r4 == handleAbsPathMatch(r3.tr, absPathRE(l))
        r5 == handleAbsPathMatch(r4.tr, absPathFirstRE(l))
    IN r5.tr

\* the path-matcher chain of TraceExecveWithFiles: the first matcher that
\* records an access ends the iteration
PathStep(tr, l) ==
    LET r1 == handleFdAndPathMatch(tr, fdAndPathRE(l))
        r2 == handlePathMatchElem4(tr, fdRE(l))
        r3 == handlePathMatchElem4(tr, absPathWithCWDRE(l))
        r4 == handleAbsPathMatch(tr, absPathRE(l))
        r5 == handleAbsPathMatch(tr, absPathFirstRE(l))
    IN IF r1.matched THEN r1.tr
       ELSE IF r2.matched THEN r2.tr
       ELSE IF r3.matched THEN r3.tr
       ELSE IF r4.matched THEN r4.tr
       ELSE r5.tr

\* the input alone: which exec of each pid is still running
LastExecAfter(le, l) ==
    [p \in Pids |->
        IF l.kind = "execve" /\ l.pid = p THEN [exe |-> l.exe, time |-> l.time]
        ELSE IF (l.kind = "signal" /\ l.sigPid = p) \/ (l.kind = "sigkill" /\ l.pid = p)
             THEN [exe |-> "", time |-> 0]
        ELSE le[p]]

ScanCommon(l) ==
    /\ line' = l
    /\ nLines' = nLines + 1
    /\ firstLine' = IF nLines = 0 THEN l ELSE firstLine
    /\ lastExec' = LastExecAfter(lastExec, l)
    /\ IF start = 0
       THEN start' = Sscanf(l).time /\ startPID' = Sscanf(l).pid
       ELSE UNCHANGED <<start, startPID>>
    /\ UNCHANGED <<pc, x, mode, nSlowestSamples, TotalTime, args, result, err, execVars>>

\* variant: an error is returned together with the tracer built so far
ReturnError_partial(msg) == pc' = "error" /\ result' = "trace" /\ err' = msg

\* return nil, fmt.Errorf(...)
ReturnError(msg) == pc' = "error" /\ result' = "nil" /\ err' = msg

\* return trace, nil
ReturnTrace == pc' = "done" /\ result' = "trace" /\ err' = ""

\* the first line does not scan as "<pid> <timestamp>": the loop returns at once
ScanStartError(l) ==
    /\ line' = l
    /\ nLines' = nLines + 1
    /\ firstLine' = IF nLines = 0 THEN l ELSE firstLine
    /\ ReturnError("cannot parse start of exec profile")
    /\ UNCHANGED <<x, mode, nSlowestSamples, ExeRuntimes, Processes, pathProcesses, allFilesSet,
                   pidToExeStart, TotalTime, start, startPID, args, opens, added, lastExec,
                   execVars>>

\* unixFloatSecondsToTime(end).Sub(unixFloatSecondsToTime(start))
\* variant: the start of the log is taken to be the origin of time
TotalTimeOf_fromOrigin(startTime, end) == unixFloatSecondsToTime(end)

TotalTimeOf(startTime, end) == unixFloatSecondsToTime(end) - unixFloatSecondsToTime(startTime)

\* variant: the first pid's entry is closed whatever the last line's pid is
StreamEndClose_anyLastPid(tr) ==
    LET end == line.time
        live == getPid(tr.pidToExeStart, startPID)
    IN IF live.exe # ""
       THEN deletePid(addExeRuntime(tr, live.start, live.exe, end - live.start, startPID), startPID)
       ELSE tr

\* variant: the runtime counts from the start of the log, not of the entry
StreamEndClose_fromLogStart(tr) ==
    LET endPID == line.pid
        end == line.time
        live == getPid(tr.pidToExeStart, startPID)
    IN IF startPID = endPID /\ live.exe # ""
       THEN deletePid(addExeRuntime(tr, live.start, live.exe, end - start, startPID), startPID)
       ELSE tr

\* the stream-end close shared by both entry points
StreamEndClose(tr) ==
    LET endPID == line.pid
        end == line.time
        live == getPid(tr.pidToExeStart, startPID)
    IN IF startPID = endPID /\ live.exe # ""
       THEN deletePid(addExeRuntime(tr, live.start, live.exe, end - live.start, startPID), startPID)
       ELSE tr

\* ---- TraceExecveTimings ----
\* the lines that can follow the lines read so far
NextFrom == IF nLines = 0 THEN 1 ELSE line.time

ReadLineTimings ==
    /\ pc = "scan" /\ mode = "timing" /\ nLines < MaxLines
    /\ \E l \in TimingLines(NextFrom) \cup {GarbageLine(NextFrom)} :
          IF start = 0 /\ ~Sscanf(l).ok
          THEN ScanStartError(l)
          ELSE /\ SetTracer(LifecycleStep(Tracer, l))
               /\ ScanCommon(l)

StreamEndTimings ==
    /\ pc = "scan" /\ mode = "timing"
    /\ IF ~Sscanf(line).ok
       THEN /\ ReturnError("cannot parse end of exec profile")
            /\ UNCHANGED <<ExeRuntimes, Processes, pathProcesses, allFilesSet, pidToExeStart,
                           opens, added, TotalTime>>
       ELSE /\ ReturnTrace
            /\ SetTracer(StreamEndClose(Tracer))
            /\ TotalTime' = TotalTimeOf(start, Sscanf(line).time)
    /\ UNCHANGED <<x, mode, nSlowestSamples, start, startPID, line, nLines, args,
                   firstLine, lastExec, execVars>>

NoOptions == [FileRegex |-> "", ProgramRegex |-> "", IncludeSnapdPrograms |-> FALSE]

\* the nil *os.File
NilFile == [name |-> "", flag |-> ""]

\* an exec.Cmd that has not been filled in
NoCommand == [Path |-> "", Args |-> <<>>]

\* the nil error, and what errors.Is finds wrapped in it
NilError == [msg |-> "", wraps |-> ""]

\* no window is being waited for
NoWait ==
    /\ currentCmd = [NoWindowWait |-> TRUE, WindowWaitGlobalTimeout |-> "", JSONOutput |-> FALSE,
                     RestoreScript |-> ""]
    /\ ctx = "none"
    /\ window = FALSE
    /\ tries = 0
    /\ wids = <<>>
    /\ waitErr = NilError
    /\ errs = <<>>

\* no helper has been called
NoHelper ==
    /\ NoWait
    /\ call = [fn |-> "none"]
    /\ fs = <<>>
    /\ file = NilFile
    /\ userCurrent = [Uid |-> "0", err |-> ""]
    /\ sudoLookup = [path |-> "", err |-> ""]
    /\ command = NoCommand

\* no command is being run around the parse
NoRun ==
    /\ main = "none"
    /\ reader = "none"
    /\ doneCh = [buf |-> <<>>, closed |-> FALSE]
    /\ fw = "none"
    /\ cmd = "none"
    /\ slg = "nil"
    /\ out = NoOutput
    /\ NoHelper

\* the --restore-script settings of the model; "" is "not given"
RestoreScripts == {"", "restore.sh"}

\* how a script can end: "" is exit status 0
ScriptErrors == {"", "exit status 1"}

\* if currentCmd.RestoreScript != "" { err := profiling.RunScript(...) }, the
\* error logged; logged is the list of errors before it
RunRestoreScript(logged, scriptErr) ==
    IF currentCmd.RestoreScript = ""
    THEN call' = call /\ errs' = logged
    ELSE /\ call' = [fn |-> "RunScript", script |-> currentCmd.RestoreScript]
         /\ errs' = IF scriptErr = "" THEN logged
                    ELSE Append(logged, "running restore script: " \o scriptErr)

InitCommon ==
    /\ fileRegex = ""
    /\ programRegex = ""
    /\ excludeListProgramPatterns = <<>>
    /\ AllFiles = <<>>
    /\ result = "none"
    /\ err = ""
    /\ ExeRuntimes = <<>>
    /\ Processes = <<>>
    /\ pathProcesses = <<>>
    /\ allFilesSet = {}
    /\ pidToExeStart = <<>>
    /\ TotalTime = 0
    /\ start = 0
    /\ startPID = 0
    /\ line = NoLine
    /\ nLines = 0
    /\ opens = 0
    /\ added = <<>>
    /\ firstLine = NoLine
    /\ lastExec = [p \in Pids |-> [exe |-> "", time |-> 0]]

Init ==
    /\ pc = "scan"
    /\ mode = "timing"
    /\ nSlowestSamples \in {0, MaxCap}
    /\ x = NoOptions
    /\ InitCommon
    /\ NoRun

Next == ReadLineTimings \/ StreamEndTimings

Spec == Init /\ [][Next]_vars

\* ---- TraceExecveWithFiles ----
\* the function is entered with the regexes that accept everything (SpecReport
\* varies them) and any list of exclude patterns
TraceExecveWithFiles_entry ==
    /\ pc = "call" /\ mode = "files"
    /\ fileRegex' = ".*"
    /\ programRegex' = ".*"
    /\ excludeListProgramPatterns' \in ExcludeLists
    /\ pc' = "scan"
    /\ UNCHANGED <<x, mode, nSlowestSamples, ExeRuntimes, Processes, pathProcesses, allFilesSet,
                   pidToExeStart, TotalTime, start, startPID, line, nLines, AllFiles,
                   result, err, opens, added, firstLine, lastExec, execVars>>

ReadLineFiles ==
    /\ pc = "scan" /\ mode = "files" /\ nLines < MaxFileLines
    /\ \E l \in FileLines(NextFrom) \cup {GarbageLine(NextFrom)} :
          IF start = 0 /\ ~Sscanf(l).ok
          THEN ScanStartError(l)
          ELSE /\ SetTracer(PathStep(LifecycleStep(Tracer, l), l))
               /\ ScanCommon(l)

\* the lines of the logs in which accesses change owner: exec calls and opens
\* of one path
OwnerLines(from) ==
    {ExecLine(p, t, e) : p \in Pids, t \in from..MaxTime, e \in FileExes}
    \cup {OpenatLine(p, t, "/x") : p \in Pids, t \in from..MaxTime}

\* the scan loop of TraceExecveWithFiles over the longer logs of these lines
ReadLineOwner ==
    /\ pc = "scan" /\ mode = "files" /\ nLines < MaxOwnerLines
    /\ \E l \in OwnerLines(NextFrom) :
          IF start = 0 /\ ~Sscanf(l).ok
          THEN ScanStartError(l)
          ELSE /\ SetTracer(PathStep(LifecycleStep(Tracer, l), l))
               /\ ScanCommon(l)

\* variant: the pid of the process is not compared
InRuntime_timeOnly(proc, path) ==
    /\ path.Time > proc.Start
    /\ path.Time < proc.Start + proc.RunDuration

\* path.Time.After(start) && path.Time.Before(end) for a process of the same pid
InRuntime(proc, path) ==
    /\ proc.pid = path.pid
    /\ path.Time > proc.Start
    /\ path.Time < proc.Start + proc.RunDuration

\* variant: the first process of the pid is taken, whatever its interval
RECURSIVE firstProcFrom_pidOnly(_, _, _)
firstProcFrom_pidOnly(procs, path, i) ==
    IF i > Len(procs) THEN 0
    ELSE IF procs[i].pid = path.pid THEN i
    ELSE firstProcFrom_pidOnly(procs, path, i + 1)

\* index of the first process the inner loop appends the access to, 0 if none
RECURSIVE firstProcFrom(_, _, _)
firstProcFrom(procs, path, i) ==
    IF i > Len(procs) THEN 0
    ELSE IF InRuntime(procs[i], path) THEN i
    ELSE firstProcFrom(procs, path, i + 1)

AttachPath(procs, path) ==
    LET i == firstProcFrom(procs, path, 1)
    IN IF i = 0 THEN procs
       ELSE [procs EXCEPT ![i].PathAccesses = Append(@, path)]

\* the loop over trace.pathProcesses, from index k on
RECURSIVE Correlate(_, _, _)
Correlate(procs, paths, k) ==
    IF k > Len(paths) THEN procs
    ELSE Correlate(AttachPath(procs, paths[k]), paths, k + 1)

\* the loop over excludeListProgramPatterns from index i on: whether a pattern
\* matches the program, or the error of the first pattern filepath.Match rejects
RECURSIVE excludedFrom(_, _, _)
excludedFrom(patterns, exe, i) ==
    IF i > Len(patterns) THEN [filtered |-> FALSE, err |-> ""]
    ELSE LET m == filepathMatch(patterns[i], exe)
         IN IF m.err # "" THEN [filtered |-> FALSE, err |-> m.err]
            ELSE IF m.matches THEN [filtered |-> TRUE, err |-> ""]
            ELSE excludedFrom(patterns, exe, i + 1)

\* the key of seenFiles: a CommonFileInfo whose Size is still zero
seenKey(proc, pathAccess) == [Path |-> pathAccess.Path, Program |-> proc.Exe, pid |-> proc.pid]

\* variant: the map is never consulted
seenFiles_unused(acc, key) == FALSE

\* seenFiles[fileInfo]
seenFiles(acc, key) == key \in acc.seen

\* variant: the program regex is not consulted
passesRegexes_fileOnly(proc, pathAccess) == FindString(fileRegex, pathAccess.Path) # ""

\* the two regex filters of the loop body
passesRegexes(proc, pathAccess) ==
    /\ FindString(fileRegex, pathAccess.Path) # ""
    /\ FindString(programRegex, proc.Exe) # ""

\* one iteration of the AllFiles loop; acc is [files, seen, err]
addFile(acc, proc, pathAccess) ==
    IF acc.err # "" \/ ~passesRegexes(proc, pathAccess) THEN acc
    ELSE LET ex == excludedFrom(excludeListProgramPatterns, proc.Exe, 1)
             key == seenKey(proc, pathAccess)
         IN IF ex.err # "" THEN [acc EXCEPT !.err = ex.err]
            ELSE IF ex.filtered \/ seenFiles(acc, key) THEN acc
            ELSE [acc EXCEPT !.files = Append(@, key), !.seen = @ \cup {key}]

\* the inner loop over proc.PathAccesses from index k on
RECURSIVE addFilesOf(_, _, _)
addFilesOf(acc, proc, k) ==
    IF k > Len(proc.PathAccesses) THEN acc
    ELSE addFilesOf(addFile(acc, proc, proc.PathAccesses[k]), proc, k + 1)

\* the outer loop over trace.Processes from index i on
RECURSIVE buildAllFiles(_, _, _)
buildAllFiles(acc, procs, i) ==
    IF i > Len(procs) THEN acc
    ELSE buildAllFiles(addFilesOf(acc, procs[i], 1), procs, i + 1)

\* what os.Stat can say of a path: -1 stands for a failed call, else the size
StatSizes == {-1, 0, 1}

PathsOf(files) == {files[i].Path : i \in DOMAIN files}

\* the entries with the sizes os.Stat gave (the file system does not change
\* while the list is built, so a path has one size)
WithSizes(files, stat) ==
    [i \in DOMAIN files |->
        [Path |-> files[i].Path, Size |-> stat[files[i].Path],
         Program |-> files[i].Program, pid |-> files[i].pid]]

\* variant: the list is returned in the order it was built
SortedByPath_asBuilt(files) == {files}

\* the results sort.Slice may leave: the same entries, in an order in which no
\* entry precedes one of a smaller Path (the sort is not stable)
SortedByPath(files) ==
    LET n == Len(files)
        perms == {f \in [1..n -> 1..n] : \A i, j \in 1..n : i # j => f[i] # f[j]}
    IN {[i \in 1..n |-> files[f[i]]] : f \in
           {f \in perms : \A i, j \in 1..n :
                i < j => ~PathLess(files[f[j]].Path, files[f[i]].Path)}}

\* from the seenFiles map to the return: the list is built, given its sizes and
\* sorted, unless a pattern of the exclude list turns out to be malformed
Report(procs) ==
    LET built == buildAllFiles([files |-> <<>>, seen |-> {}, err |-> ""], procs, 1)
    IN \E stat \in [PathsOf(built.files) -> StatSizes] :
          IF built.err # ""
          THEN /\ ReturnError("internal error: pattern is invalid")
               /\ AllFiles' = WithSizes(built.files, stat)
          ELSE /\ ReturnTrace
               /\ AllFiles' \in SortedByPath(WithSizes(built.files, stat))

StreamEndFiles ==
    /\ pc = "scan" /\ mode = "files"
    /\ IF ~Sscanf(line).ok
       THEN /\ ReturnError("cannot parse end of exec profile")
            /\ UNCHANGED <<ExeRuntimes, Processes, pathProcesses, allFilesSet, pidToExeStart,
                           opens, added, TotalTime, AllFiles>>
       ELSE LET tr == StreamEndClose(Tracer)
                procs == Correlate(tr.Processes, tr.pathProcesses, 1)
            IN /\ SetTracer([tr EXCEPT !.Processes = procs, !.pathProcesses = <<>>])
               /\ TotalTime' = TotalTimeOf(start, Sscanf(line).time)
               /\ Report(procs)
    /\ UNCHANGED <<x, mode, nSlowestSamples, start, startPID, line, nLines,
                   fileRegex, programRegex, excludeListProgramPatterns,
                   firstLine, lastExec, execVars>>

InitFiles ==
    /\ pc = "call"
    /\ mode = "files"
    /\ nSlowestSamples = 0
    /\ x = NoOptions
    /\ InitCommon
    /\ NoRun

NextFiles == TraceExecveWithFiles_entry \/ ReadLineFiles \/ StreamEndFiles

SpecFiles == InitFiles /\ [][NextFiles]_vars

\* the same entry point over the longer logs of exec and open lines
NextOwner == TraceExecveWithFiles_entry \/ ReadLineOwner \/ StreamEndFiles

SpecOwner == InitFiles /\ [][NextOwner]_vars

\* ---- the scan loop of TraceExecveWithFiles on every line shape ----
ReadLineShapes ==
    /\ pc = "scan" /\ mode = "files" /\ nLines < MaxShapeLines
    /\ \E l \in ShapeLines(NextFrom) :
          /\ SetTracer(PathStep(LifecycleStep(Tracer, l), l))
          /\ ScanCommon(l)

InitShapes ==
    /\ pc = "scan"
    /\ mode = "files"
    /\ nSlowestSamples = 0
    /\ x = NoOptions
    /\ fileRegex = ".*"
    /\ programRegex = ".*"
    /\ excludeListProgramPatterns = <<>>
    /\ AllFiles = <<>>
    /\ result = "none"
    /\ err = ""
    /\ ExeRuntimes = <<>>
    /\ Processes = <<>>
    /\ pathProcesses = <<>>
    /\ allFilesSet = {}
    /\ pidToExeStart = <<>>
    /\ TotalTime = 0
    /\ start = 0
    /\ startPID = 0
    /\ line = NoLine
    /\ nLines = 0
    /\ opens = 0
    /\ added = <<>>
    /\ firstLine = NoLine
    /\ lastExec = [p \in Pids |-> [exe |-> "", time |-> 0]]
    /\ NoRun

NextShapes == ReadLineShapes \/ StreamEndFiles

SpecShapes == InitShapes /\ [][NextShapes]_vars

\* ---- the file list of TraceExecveWithFiles on its own ----
\* path accesses a record of pid p running over ticks s..s+d can hold: opens of
\* the pid strictly inside the run
AccessesIn(p, s, d) ==
    {[Time |-> unixFloatSecondsToTime(t), Path |-> TrimDeleted(f), Syscall |-> "openat", pid |-> p] :
        t \in {t \in Times : s < t /\ t < s + d}, f \in Paths}

\* the lists of at most two such accesses, in log order
AccessListsIn(p, s, d) ==
    {<<>>} \cup {<<a>> : a \in AccessesIn(p, s, d)}
    \cup {ab \in AccessesIn(p, s, d) \X AccessesIn(p, s, d) : ab[1].Time <= ab[2].Time}

\* process records as the scan and the correlation pass leave them: a run
\* starts and ends at timestamps of the log
CorrelatedRecords ==
    UNION {{[Start |-> unixFloatSecondsToTime(sd[1]), Exe |-> e,
             RunDuration |-> DurationOf(sd[2]),
             PathAccesses |-> acc, pid |-> p] : acc \in AccessListsIn(p, sd[1], sd[2])} :
           p \in Pids, e \in FileExes,
           sd \in {sd \in Times \X (0..MaxTime) : sd[1] + sd[2] <= MaxTime}}

\* the end of a record's run in nanoseconds: Start.Add(RunDuration)
EndOf(r) == r.Start + r.RunDuration

\* trace.Processes after correlation: here at most two records, of different
\* pids, in the order in which their runs ended (truncation can make the end of
\* a run one nanosecond less than the timestamp it ended at)
CorrelatedLists ==
    {<<>>} \cup {<<r>> : r \in CorrelatedRecords}
    \cup {rq \in CorrelatedRecords \X CorrelatedRecords :
              rq[1].pid # rq[2].pid /\ EndOf(rq[1]) <= EndOf(rq[2]) + 1}

BuildReport ==
    /\ pc = "report" /\ mode = "files"
    /\ Report(Processes)
    /\ UNCHANGED <<x, mode, nSlowestSamples, ExeRuntimes, Processes, pathProcesses, allFilesSet,
                   pidToExeStart, TotalTime, start, startPID, line, nLines,
                   fileRegex, programRegex, excludeListProgramPatterns,
                   opens, added, firstLine, lastExec, execVars>>

InitReport ==
    /\ pc = "report"
    /\ x = NoOptions
    /\ mode = "files"
    /\ nSlowestSamples = 0
    /\ fileRegex \in {".*", "^/x$"}
    /\ programRegex \in {".*", "^/a$"}
    /\ excludeListProgramPatterns \in ExcludeLists
    /\ Processes \in CorrelatedLists
    /\ AllFiles = <<>>
    /\ result = "none"
    /\ err = ""
    /\ ExeRuntimes = <<>>
    /\ pathProcesses = <<>>
    /\ allFilesSet = {}
    /\ pidToExeStart = <<>>
    /\ TotalTime = 0
    /\ start = 0
    /\ startPID = 0
    /\ line = NoLine
    /\ nLines = 0
    /\ opens = 0
    /\ added = <<>>
    /\ firstLine = NoLine
    /\ lastExec = [p \in Pids |-> [exe |-> "", time |-> 0]]
    /\ NoRun

NextReport == BuildReport

SpecReport == InitReport /\ [][NextReport]_vars

\* ---- the file command: cmdFile.Execute around TraceExecveWithFiles ----
\* from the option checks to the call of TraceExecveWithFiles (the traced
\* command runs in between and leaves the log)
cmdFile_Execute ==
    /\ pc = "cli" /\ mode = "files"
    /\ LET fr == IF x.FileRegex # "" THEN regexpCompile(x.FileRegex)
                 ELSE [ok |-> TRUE, re |-> ".*"]
           pr == IF x.ProgramRegex # "" THEN regexpCompile(x.ProgramRegex)
                 ELSE [ok |-> TRUE, re |-> ".*"]
       IN IF ~fr.ok
          THEN /\ pc' = "rejected"
               /\ err' = "invalid setting for --file-regex"
               /\ UNCHANGED <<fileRegex, programRegex, excludeListProgramPatterns>>
          ELSE IF ~pr.ok
          THEN /\ pc' = "rejected"
               /\ err' = "invalid setting for --program-regex"
               /\ UNCHANGED <<fileRegex, programRegex, excludeListProgramPatterns>>
          ELSE /\ pc' = "scan"
               /\ err' = ""
               /\ fileRegex' = fr.re
               /\ programRegex' = pr.re
               /\ excludeListProgramPatterns' =
                      IF x.IncludeSnapdPrograms THEN <<>> ELSE DefaultExcludeList
    /\ UNCHANGED <<x, mode, nSlowestSamples, ExeRuntimes, Processes, pathProcesses, allFilesSet,
                   pidToExeStart, TotalTime, start, startPID, line, nLines, AllFiles,
                   result, opens, added, firstLine, lastExec, execVars>>

InitCmdFile ==
    /\ pc = "cli"
    /\ mode = "files"
    /\ nSlowestSamples = 0
    /\ x \in [FileRegex : FileRegexOpts, ProgramRegex : ProgramRegexOpts,
              IncludeSnapdPrograms : BOOLEAN]
    /\ InitCommon
    /\ NoRun

NextCmdFile == cmdFile_Execute \/ ReadLineFiles \/ StreamEndFiles

SpecCmdFile == InitCmdFile /\ [][NextCmdFile]_vars

\* ---- ExecveTiming.addExeRuntime on its own ----
AddCall ==
    /\ pc = "api" /\ Len(added) < MaxAdds
    /\ \E exe \in Exes, totalSec \in 0..MaxDur :
          SetTracer(ExecveTiming_addExeRuntime(Tracer, 1, exe, totalSec, 1))
    /\ UNCHANGED <<pc, x, mode, nSlowestSamples, TotalTime, start, startPID, line, nLines,
                   args, result, err, firstLine, lastExec, execVars>>

InitRetain ==
    /\ pc = "api"
    /\ mode = "timing"
    /\ nSlowestSamples \in -1..MaxCap
    /\ x = NoOptions
    /\ InitCommon
    /\ NoRun

NextRetain == AddCall

SpecRetain == InitRetain /\ [][NextRetain]_vars

\* ---- ExecveTiming.Display on its own ----
\* timestamps about 119 microseconds apart (500 ticks are 119209 ns) and
\* runtimes of none, 11920 ns and 21457 ns
DisplayTicks == {1, 500, 1000}

DisplayDurs == {0, 50, 90}

DisplaySamples ==
    {Sample(st, exe, totalSec, 1) : st \in DisplayTicks, exe \in Exes, totalSec \in DisplayDurs}

\* the sequences over S of length at most n
RECURSIVE SeqsUpTo(_, _)
SeqsUpTo(S, n) ==
    IF n = 0 THEN {<<>>}
    ELSE LET shorter == SeqsUpTo(S, n - 1)
         IN shorter \cup {Append(q, e) : q \in shorter, e \in S}

InitDisplay ==
    /\ pc = "show"
    /\ mode = "timing"
    /\ nSlowestSamples = 0
    /\ x = NoOptions
    /\ fileRegex = ""
    /\ programRegex = ""
    /\ excludeListProgramPatterns = <<>>
    /\ AllFiles = <<>>
    /\ result = "trace"
    /\ err = ""
    /\ ExeRuntimes \in SeqsUpTo(DisplaySamples, MaxShown)
    /\ Processes = <<>>
    /\ pathProcesses = <<>>
    /\ allFilesSet = {}
    /\ pidToExeStart = <<>>
    /\ TotalTime = unixFloatSecondsToTime(1000) - unixFloatSecondsToTime(1)
    /\ start = 0
    /\ startPID = 0
    /\ line = NoLine
    /\ nLines = 0
    /\ opens = 0
    /\ added = ExeRuntimes
    /\ firstLine = NoLine
    /\ lastExec = [p \in Pids |-> [exe |-> "", time |-> 0]]
    /\ NoRun

DisplayCall ==
    /\ pc = "show"
    /\ ExecveTiming_Display
    /\ pc' = "shown"
    /\ UNCHANGED <<x, mode, nSlowestSamples, Processes, pathProcesses, allFilesSet, pidToExeStart,
                   TotalTime, start, startPID, line, nLines, args, result, err,
                   main, reader, doneCh, fw, cmd, slg, osVars,
                   opens, added, firstLine, lastExec>>

NextDisplay == DisplayCall

SpecDisplay == InitDisplay /\ [][NextDisplay]_vars

\* ---- one traced run of the exec command ----
\* Execute has made the fifo and holds its write end
InitExec ==
    /\ pc = "call"
    /\ mode = "timing"
    /\ nSlowestSamples = -1
    /\ x = NoOptions
    /\ InitCommon
    /\ main = "setup"
    /\ reader = "none"
    /\ doneCh = [buf |-> <<>>, closed |-> FALSE]
    /\ fw = "open"
    /\ cmd = "none"
    /\ slg = "nil"
    /\ out = NoOutput
    /\ call = [fn |-> "none"]
    /\ fs = <<>>
    /\ file = NilFile
    /\ userCurrent = [Uid |-> "0", err |-> ""]
    /\ sudoLookup = [path |-> "", err |-> ""]
    /\ command = NoCommand
    /\ currentCmd \in [NoWindowWait : {TRUE}, WindowWaitGlobalTimeout : {""},
                       JSONOutput : {FALSE}, RestoreScript : RestoreScripts]
    /\ ctx = "none"
    /\ window = FALSE
    /\ tries = 0
    /\ wids = <<>>
    /\ waitErr = NilError
    /\ errs = <<>>

parseVars == <<pc, ExeRuntimes, Processes, pathProcesses, allFilesSet, pidToExeStart, TotalTime,
               start, startPID, line, nLines, result, err, opens, added, firstLine, lastExec>>

frameVars == <<x, mode, nSlowestSamples, args, osVars>>

\* go func() { ... }(): the goroutine is started and is about to enter
\* TraceExecveTimings(straceLog, -1)
GoReader ==
    /\ main = "setup"
    /\ main' = "spawned"
    /\ reader' = "opening"
    /\ UNCHANGED <<parseVars, frameVars, doneCh, fw, cmd, slg, out>>

\* some process holds the fifo open for writing
WriterExists == fw = "open" \/ cmd = "running"

\* slog, err := os.Open(straceLog) of the goroutine. The open of a fifo for
\* reading returns while a writer holds it open and waits for one otherwise;
\* an open entered after the temporary directory is removed fails
ReaderOpen ==
    /\ reader \in {"opening", "blocked"}
    /\ IF reader = "opening" /\ fw = "removed"
       THEN /\ ReturnError("open strace.fifo: no such file or directory")
            /\ reader' = "running"
       ELSE IF WriterExists
       THEN pc' = "scan" /\ reader' = "running" /\ UNCHANGED <<result, err>>
       ELSE reader = "opening" /\ reader' = "blocked" /\ UNCHANGED <<pc, result, err>>
    /\ UNCHANGED <<ExeRuntimes, Processes, pathProcesses, allFilesSet, pidToExeStart, TotalTime,
                   start, startPID, line, nLines, opens, added, firstLine, lastExec,
                   frameVars, main, doneCh, fw, cmd, slg, out>>

\* return err: the deferred fw.Close() runs
ExecuteReturns ==
    /\ main' = "returning"
    /\ fw' = "closed"

\* the deferred os.RemoveAll(straceTmp) of a return
RemoveAll ==
    /\ main = "returning"
    /\ fw' = "removed"
    /\ main' = "returned"
    /\ UNCHANGED <<parseVars, frameVars, reader, doneCh, cmd, slg, out>>

\* from TraceExecCommand to cmd.Start(): the command is built and started, or
\* one of the calls on the way fails and Execute returns
StartCommand ==
    /\ main = "spawned"
    /\ \/ main' = "started" /\ cmd' = "running" /\ fw' = fw
       \/ ExecuteReturns /\ cmd' = cmd
    /\ UNCHANGED <<parseVars, frameVars, reader, doneCh, slg, out>>

\* strace and its tracees exit: their write ends of the fifo close
CommandExits ==
    /\ cmd = "running"
    /\ cmd' = "exited"
    /\ UNCHANGED <<parseVars, frameVars, main, reader, doneCh, fw, slg, out>>

\* the window appears and is closed, or cmd.Wait() returns
WaitForStartup ==
    /\ main = "started"
    /\ \E waited \in BOOLEAN : waited => cmd = "exited"
    /\ main' = "waited"
    /\ UNCHANGED <<parseVars, frameVars, reader, doneCh, fw, cmd, slg, out>>

\* fw.Close()
CloseFifo ==
    /\ main = "waited"
    /\ fw' = "closed"
    /\ main' = "closing"
    /\ UNCHANGED <<parseVars, frameVars, reader, doneCh, cmd, slg, out>>

\* the goroutine reads a line that strace wrote to the fifo
ReaderReadLine ==
    /\ reader = "running" /\ cmd # "none" /\ nLines < MaxExecLines
    /\ ReadLineTimings

\* the goroutine reads end of file: no write end of the fifo is open any more
ReaderEOF ==
    /\ reader = "running" /\ ~WriterExists
    /\ StreamEndTimings

\* variant: the channel has no buffer, the send waits for the receive
ReaderSend_unbuffered ==
    /\ reader = "running" /\ pc \in {"done", "error"}
    /\ main = "closing"
    /\ doneCh' = [doneCh EXCEPT !.buf = Append(@, [timings |-> result, err |-> err])]
    /\ reader' = "sent"
    /\ UNCHANGED <<parseVars, frameVars, main, fw, cmd, slg, out>>

\* doneCh <- straceResult{timings: timing, err: err}
ReaderSend ==
    /\ reader = "running" /\ pc \in {"done", "error"}
    /\ Len(doneCh.buf) < 1
    /\ doneCh' = [doneCh EXCEPT !.buf = Append(@, [timings |-> result, err |-> err])]
    /\ reader' = "sent"
    /\ UNCHANGED <<parseVars, frameVars, main, fw, cmd, slg, out>>

\* close(doneCh)
ReaderClose ==
    /\ reader = "sent"
    /\ doneCh' = [doneCh EXCEPT !.closed = TRUE]
    /\ reader' = "finished"
    /\ UNCHANGED <<parseVars, frameVars, main, fw, cmd, slg, out>>

\* variant: Execute does not wait for the channel and takes the goroutine's
\* result as it is
Receive_noWait ==
    /\ main = "closing"
    /\ IF err = ""
       THEN main' = "received" /\ slg' = "trace" /\ fw' = fw
       ELSE ExecuteReturns /\ slg' = slg
    /\ UNCHANGED <<parseVars, frameVars, reader, doneCh, cmd, out>>

\* straceRes := <-doneCh, then slg = straceRes.timings or return straceRes.err
Receive ==
    /\ main = "closing"
    /\ doneCh.buf # <<>>
    /\ doneCh' = [doneCh EXCEPT !.buf = Tail(@)]
    /\ IF Head(doneCh.buf).err = ""
       THEN main' = "received" /\ slg' = Head(doneCh.buf).timings /\ fw' = fw
       ELSE ExecuteReturns /\ slg' = slg
    /\ UNCHANGED <<parseVars, frameVars, reader, cmd, out>>

\* slg.Display(wtab, nil) unless the output is JSON, the restore script, and
\* run.TimeToRun = slg.TotalTime
DisplayTimings ==
    /\ main = "received"
    /\ \E JSONOutput \in BOOLEAN :
          IF JSONOutput THEN UNCHANGED <<ExeRuntimes, out>> ELSE ExecveTiming_Display
    /\ \E scriptErr \in ScriptErrors : RunRestoreScript(errs, scriptErr)
    /\ main' = "recorded"
    /\ UNCHANGED <<pc, Processes, pathProcesses, allFilesSet, pidToExeStart, TotalTime,
                   start, startPID, line, nLines, result, err, opens, added, firstLine,
                   lastExec, x, mode, nSlowestSamples, args, fs, file, userCurrent,
                   sudoLookup, command, currentCmd, ctx, window, tries, wids, waitErr,
                   reader, doneCh, fw, cmd, slg>>

NextExec ==
    \/ GoReader \/ StartCommand \/ CommandExits \/ WaitForStartup \/ CloseFifo
    \/ RemoveAll \/ ReaderOpen \/ ReaderReadLine \/ ReaderEOF \/ ReaderSend \/ ReaderClose
    \/ Receive \/ DisplayTimings

SpecExec == InitExec /\ [][NextExec]_vars

\* the schedule of a traced run: a step of Execute, of the goroutine or of the
\* tracer that stays possible is taken; strace exits; nothing makes strace
\* write another line
FairExec ==
    /\ WF_vars(GoReader) /\ WF_vars(StartCommand) /\ WF_vars(WaitForStartup)
    /\ WF_vars(CloseFifo) /\ WF_vars(Receive) /\ WF_vars(DisplayTimings)
    /\ WF_vars(RemoveAll)
    /\ WF_vars(ReaderOpen) /\ WF_vars(ReaderEOF) /\ WF_vars(ReaderSend)
    /\ WF_vars(ReaderClose)
    /\ WF_vars(CommandExits)

SpecExecFair == SpecExec /\ FairExec

\* ======================= claims =======================

\* a path access was attached to process i by the correlation pass
Attached(procs, i, a) == a \in Range(procs[i].PathAccesses)

\* C1: in the correlation pass of TraceExecveWithFiles an access with the pid
\* of a process record is attached to it when its time is exactly the record's
\* start (the record has a positive duration and no earlier record of the pid
\* covers that time), and is not attached when its time is exactly start+duration.
C1_HalfOpenInterval ==
    [][(mode = "files" /\ pc = "scan" /\ pc' = "done") =>
        \A k \in DOMAIN pathProcesses : \A i \in DOMAIN Processes' :
            LET a == pathProcesses[k]
                p == Processes'[i]
            IN a.pid = p.pid =>
                /\ (/\ a.Time = p.Start
                    /\ p.RunDuration > 0
                    /\ \A j \in 1..(i - 1) :
                          ~(/\ Processes'[j].pid = a.pid
                            /\ Processes'[j].Start <= a.Time
                            /\ a.Time < Processes'[j].Start + Processes'[j].RunDuration))
                   => Attached(Processes', i, a)
                /\ (a.Time = p.Start + p.RunDuration) => ~Attached(Processes', i, a)]_vars

\* ---- bounded retention ----
DistinctDurations(s) == \A i, j \in DOMAIN s : i # j => s[i].TotalSec # s[j].TotalSec

\* the samples of s that fewer than k samples of s exceed in duration
KLargest(s, k) ==
    {s[i] : i \in {i \in DOMAIN s :
                      Cardinality({j \in DOMAIN s : s[j].TotalSec > s[i].TotalSec}) < k}}

\* the step is one addExeRuntime call
IsAdd == Len(added') = Len(added) + 1

NewSample == added'[Len(added')]

\* positions of the smallest duration in s
MinIdx(s) == {i \in DOMAIN s : \A j \in DOMAIN s : s[i].TotalSec <= s[j].TotalSec}

FirstOf(S) == CHOOSE i \in S : \A j \in S : i <= j

\* C2: with cap K > 0, once more than K samples of pairwise distinct durations
\* have been added, the retained list is exactly the K samples with the largest
\* durations; and adding one more sample whose duration is below every retained
\* duration leaves the retained list as it was.
C2_KeepsKLargest ==
    /\ [](nSlowestSamples > 0 /\ Len(added) > nSlowestSamples /\ DistinctDurations(added)
            => /\ Len(ExeRuntimes) = nSlowestSamples
               /\ Range(ExeRuntimes) = KLargest(added, nSlowestSamples))
    /\ [][(/\ IsAdd
           /\ nSlowestSamples > 0 /\ Len(added) > nSlowestSamples /\ DistinctDurations(added)
           /\ \A i \in DOMAIN ExeRuntimes : NewSample.TotalSec < ExeRuntimes[i].TotalSec)
          => ExeRuntimes' = ExeRuntimes]_vars

\* C2 witness: more than K+1 distinct samples were added, the last one below
\* everything retained, and the first one added has been evicted
C2_Witness ==
    /\ pc = "api" /\ nSlowestSamples > 0
    /\ Len(added) >= nSlowestSamples + 2
    /\ DistinctDurations(added)
    /\ \A i \in DOMAIN ExeRuntimes : added[Len(added)].TotalSec < ExeRuntimes[i].TotalSec
    /\ added[1] \notin Range(ExeRuntimes)

ReadStep == pc = "scan" /\ nLines' = nLines + 1

\* the step is the stream-end step of a non-empty log
EndStep == pc = "scan" /\ pc' = "done"

\* line l reports the termination of pid p
IsTermination(l, p) ==
    \/ l.kind = "signal" /\ l.sigPid = p
    \/ l.kind = "sigkill" /\ l.pid = p

Live(p) == p \in DOMAIN pidToExeStart

\* the log read so far is: pid p execs /a at the first line, p execs /b at the second
TwoExecLog(p) ==
    /\ nLines = 2
    /\ firstLine.kind = "execve" /\ firstLine.pid = p /\ firstLine.exe = "/a"
    /\ line.kind = "execve" /\ line.pid = p /\ line.exe = "/b"

\* C4 as stated: for the two-line log (pid execs /a at T1, then /b at T2)
\* exactly one record is produced, (/a, T1, T2 - T1), and the pid's live entry
\* is (/b, T2).
C4_TwoExecsOneRecord ==
    \A p \in Pids :
        TwoExecLog(p) =>
            /\ added = <<Sample(firstLine.time, "/a", line.time - firstLine.time, p)>>
            /\ Live(p)
            /\ pidToExeStart[p].exe = "/b" /\ pidToExeStart[p].start = line.time

\* C4 amended: once both lines are handled and before the stream-end step,
\* exactly one record has been produced, (/a, T1, T2 - T1), it is the retained
\* list, and the live entry is (/b, T2); the stream-end step (first pid = last
\* pid) then closes /b with duration 0 and removes the entry.
C4_TwoExecsThenStreamEnd ==
    \A p \in Pids :
        TwoExecLog(p) =>
            LET ra == Sample(firstLine.time, "/a", line.time - firstLine.time, p)
            IN /\ pc = "scan" =>
                    /\ added = <<ra>>
                    /\ ExeRuntimes = <<ra>>
                    /\ Live(p)
                    /\ pidToExeStart[p].exe = "/b" /\ pidToExeStart[p].start = line.time
               /\ pc = "done" =>
                    /\ added = <<ra, Sample(line.time, "/b", 0, p)>>
                    /\ ~Live(p)

\* C4 witness: both lines handled, T2 later than T1, stream end not yet run
C4_Witness ==
    \E p \in Pids : TwoExecLog(p) /\ pc = "scan" /\ line.time > firstLine.time

\* C5: pid reuse.  A termination of pid p produces the record of p's latest
\* exec alone (its image, its start, duration = T - that start) and ends p's
\* entry; an exec of a pid that is not running (never exec'd, or terminated)
\* produces no record and opens a fresh entry.  So exec /a, terminate, exec /b,
\* terminate on one pid gives two records, each from its own exec.
C5_PidReuse ==
    [][ReadStep =>
        \A p \in Pids :
            /\ (IsTermination(line', p) /\ lastExec[p].exe # "")
               => /\ added' = Append(added, Sample(lastExec[p].time, lastExec[p].exe,
                                                   line'.time - lastExec[p].time, p))
                  /\ p \notin DOMAIN pidToExeStart'
            /\ (line'.kind = "execve" /\ line'.pid = p /\ lastExec[p].exe = "")
               => /\ added' = added
                  /\ p \in DOMAIN pidToExeStart'
                  /\ pidToExeStart'[p].exe = line'.exe
                  /\ pidToExeStart'[p].start = line'.time]_vars

\* C5 witness: two records of one pid, /a then /b, the first ended before the
\* second began (by more than the nanosecond of truncation), the pid not running
C5_Witness ==
    \E p \in Pids :
        /\ pc = "scan" /\ Len(added) = 2 /\ opens = 2
        /\ added[1].pid = p /\ added[2].pid = p
        /\ added[1].Exe = "/a" /\ added[2].Exe = "/b"
        /\ added[1].Start + added[1].TotalSec + 1 < added[2].Start
        /\ ~Live(p) /\ lastExec[p].exe = ""

\* entries that leave the tracker in this step (deleted, or replaced by a new exec)
ClosedNow ==
    {p \in DOMAIN pidToExeStart :
        p \notin DOMAIN pidToExeStart' \/ pidToExeStart'[p].id # pidToExeStart[p].id}

\* C6: with unbounded retention every opened entry is closed at most once and
\* each close appends exactly one record: the number of records is the number of
\* entries opened and no longer live; a step closes at most one entry, appends
\* its record and nothing else, and a step that closes nothing appends nothing.
C6_CloseOncePerEntry ==
    /\ [](nSlowestSamples = 0 =>
            Len(ExeRuntimes) = opens - Cardinality(DOMAIN pidToExeStart))
    /\ [][nSlowestSamples = 0 =>
            /\ Cardinality(ClosedNow) <= 1
            /\ ClosedNow = {} => ExeRuntimes' = ExeRuntimes
            /\ \A p \in ClosedNow :
                  /\ Len(ExeRuntimes') = Len(ExeRuntimes) + 1
                  /\ SubSeq(ExeRuntimes', 1, Len(ExeRuntimes)) = ExeRuntimes
                  /\ ExeRuntimes'[Len(ExeRuntimes')].pid = p
                  /\ ExeRuntimes'[Len(ExeRuntimes')].Exe = pidToExeStart[p].exe
                  /\ ExeRuntimes'[Len(ExeRuntimes')].Start
                        = unixFloatSecondsToTime(pidToExeStart[p].start)
            /\ \A p \in DOMAIN pidToExeStart' :
                  \/ p \in DOMAIN pidToExeStart /\ pidToExeStart'[p].id = pidToExeStart[p].id
                  \/ pidToExeStart'[p].id > opens]_vars

\* C6 witness: one exec, closed by a line before the last one; the last line
\* is a SIGKILL for the same pid and has added nothing
C6_Witness ==
    \E p \in Pids :
        /\ pc = "scan" /\ nSlowestSamples = 0 /\ nLines = 3 /\ opens = 1
        /\ firstLine.kind = "execve" /\ firstLine.pid = p
        /\ line.kind = "sigkill" /\ line.pid = p
        /\ ~Live(p)
        /\ Len(ExeRuntimes) = 1
        /\ \E t \in Times :
              /\ t < line.time
              /\ ExeRuntimes[1] = Sample(firstLine.time, firstLine.exe, t - firstLine.time, p)

\* C7 as stated: at end of stream every exec that was not terminated before the
\* last line has a record with duration = last timestamp - its start.
C7_AllLiveFinalized ==
    pc = "done" =>
        \A p \in Pids :
            lastExec[p].exe # "" =>
                \E i \in DOMAIN added :
                    added[i] = Sample(lastExec[p].time, lastExec[p].exe,
                                      line.time - lastExec[p].time, p)

\* C7 amended: at end of stream a still-running exec is finalized only for the
\* pid of the first line, and only if the last line has that pid: then its
\* record, with duration = last timestamp - entry start, is the last one
\* produced; every other still-running exec keeps its live entry and gets none.
C7_OnlyFirstPidFinalized ==
    pc = "done" =>
        \A p \in Pids :
            lastExec[p].exe # "" =>
                IF p = firstLine.pid /\ p = line.pid
                THEN /\ Len(added) > 0
                     /\ added[Len(added)] = Sample(lastExec[p].time, lastExec[p].exe,
                                                   line.time - lastExec[p].time, p)
                     /\ ~Live(p)
                ELSE /\ Live(p)
                     /\ pidToExeStart[p].exe = lastExec[p].exe
                     /\ pidToExeStart[p].start = lastExec[p].time

\* C7 witness: at stream end the first pid was still running and is finalized
\* with a positive duration, while another pid was still running too
C7_Witness ==
    \E p, q \in Pids :
        /\ pc = "done" /\ p # q
        /\ firstLine.pid = p /\ line.pid = p
        /\ lastExec[p].exe # "" /\ line.time > lastExec[p].time
        /\ lastExec[q].exe # ""

\* C8: the stream-end step closes an entry iff the first line's pid equals the
\* last line's pid and that pid has a live entry; it then produces exactly that
\* entry's record with duration = last timestamp - entry start and removes the
\* entry; otherwise it produces nothing and leaves the tracker alone.
C8_StreamEndClose ==
    [][EndStep =>
        IF firstLine.pid = line.pid /\ Live(firstLine.pid)
        THEN LET p == firstLine.pid
                 e == pidToExeStart[p]
                 r == Sample(e.start, e.exe, line.time - e.start, p)
             IN /\ added' = Append(added, r)
                /\ nSlowestSamples = 0 => ExeRuntimes' = Append(ExeRuntimes, r)
                /\ DOMAIN pidToExeStart' = DOMAIN pidToExeStart \ {p}
                /\ \A q \in DOMAIN pidToExeStart' : pidToExeStart'[q] = pidToExeStart[q]
        ELSE /\ added' = added
             /\ ExeRuntimes' = ExeRuntimes
             /\ pidToExeStart' = pidToExeStart]_vars

\* C8 witness: a log of several lines whose first and last pid agree, that pid
\* still running at the end since a time after the first line; it is closed
C8_Witness ==
    \E p \in Pids :
        /\ pc = "done" /\ nLines >= 3
        /\ firstLine.pid = p /\ line.pid = p
        /\ lastExec[p].exe # "" /\ lastExec[p].time > firstLine.time
        /\ line.time > lastExec[p].time
        /\ ~Live(p)
        /\ \A q \in Pids \ {p} : lastExec[q].exe = ""

\* C9: a termination event for pid p at time T while p has the live entry
\* (image, start) appends the one record (image, start, T - start, p) and
\* removes p's entry.
C9_TerminationCloses ==
    [][ReadStep =>
        \A p \in Pids :
            (IsTermination(line', p) /\ Live(p)) =>
                LET e == pidToExeStart[p]
                    r == Sample(e.start, e.exe, line'.time - e.start, p)
                IN /\ added' = Append(added, r)
                   /\ nSlowestSamples = 0 => ExeRuntimes' = Append(ExeRuntimes, r)
                   /\ p \notin DOMAIN pidToExeStart']_vars

\* C9 witness: the last line is a SIGCHLD/SIGTERM naming a pid whose entry it
\* closed after a positive runtime
C9_Witness ==
    \E p \in Pids : \E s \in Times : \E e \in Exes :
        /\ pc = "scan" /\ line.kind = "signal" /\ line.sigPid = p
        /\ s < line.time
        /\ Len(added) > 0
        /\ added[Len(added)] = Sample(s, e, line.time - s, p)
        /\ ~Live(p)

\* C10: a termination event for a pid without a live entry produces no record
\* and leaves the record list and the tracker (every pid's entry) unchanged.
C10_TerminationOfUnknownPid ==
    [][ReadStep =>
        \A p \in Pids :
            (IsTermination(line', p) /\ ~Live(p)) =>
                /\ added' = added
                /\ ExeRuntimes' = ExeRuntimes
                /\ pidToExeStart' = pidToExeStart]_vars

\* C10 witness: the last line terminates a pid that never had an entry (nothing
\* was ever closed), while another pid is running
C10_Witness ==
    \E p, q \in Pids :
        /\ pc = "scan" /\ p # q
        /\ IsTermination(line, p)
        /\ ~Live(p) /\ added = <<>> /\ opens = 1
        /\ Live(q)

\* ---- correlation and the file list ----
Count(s, a) == Cardinality({i \in DOMAIN s : s[i] = a})

\* the record's pid is the access's and the access lies strictly inside its run
Covers(p, a) == p.pid = a.pid /\ p.Start < a.Time /\ a.Time < p.Start + p.RunDuration

\* the step is the stream-end step of TraceExecveWithFiles on a log whose last
\* line parses
FilesEndStep == mode = "files" /\ pc = "scan" /\ pc' \in {"done", "error"} /\ Sscanf(line).ok

FilesDone == mode = "files" /\ pc = "done" /\ result = "trace"

\* the file list has an entry for this path, program and pid
Listed(path, program, pid) ==
    \E i \in DOMAIN AllFiles :
        AllFiles[i].Path = path /\ AllFiles[i].Program = program /\ AllFiles[i].pid = pid

RegexMatches(re, str) ==
    \/ re = ".*"
    \/ re = "^/x$" /\ str = "/x"
    \/ re = "^/a$" /\ str = "/a"

\* C13: every entry of the returned file list has a Path the file regex
\* matches and a Program the program regex matches and no pattern of the
\* exclude list matches.
C13_EntriesPassFilters ==
    FilesDone =>
        \A i \in DOMAIN AllFiles :
            /\ RegexMatches(fileRegex, AllFiles[i].Path)
            /\ RegexMatches(programRegex, AllFiles[i].Program)
            /\ \A k \in DOMAIN excludeListProgramPatterns :
                  ~filepathMatch(excludeListProgramPatterns[k], AllFiles[i].Program).matches

\* C13 witness: /a opened /x and /y and a snapd helper opened /x; under the
\* file regex ^/x$ and the default exclude list the list is the one entry for
\* /x by /a
C13_Witness ==
    /\ FilesDone
    /\ fileRegex = "^/x$" /\ excludeListProgramPatterns = DefaultExcludeList
    /\ Len(Processes) = 2
    /\ Processes[1].Exe = "/a" /\ Len(Processes[1].PathAccesses) = 2
    /\ Processes[1].PathAccesses[1].Path = "/x" /\ Processes[1].PathAccesses[2].Path = "/y"
    /\ Processes[2].Exe = "/usr/lib/snapd/snap-exec" /\ Len(Processes[2].PathAccesses) = 1
    /\ Processes[2].PathAccesses[1].Path = "/x"
    /\ Len(AllFiles) = 1 /\ AllFiles[1].Path = "/x" /\ AllFiles[1].Program = "/a"

\* the program is one the default exclude list hides (the programs of the model)
DefaultExcluded(program) == program = "/usr/lib/snapd/snap-exec"

\* a regex option accepts the string: an option left empty accepts everything
OptionAccepts(opt, str) == opt = "" \/ RegexMatches(opt, str)

\* C14: once the file command has accepted its options, the exclude list is
\* the default list, or the empty list under --include-snapd-programs.  In the
\* output of a run without that option no entry's program is a snapd helper
\* under /usr/lib/snapd/; in the output of a run with it every access held by a
\* process record, snapd helper or not, whose path and program the two regex
\* options accept has its entry.
C14_SnapdProgramsHiddenByDefault ==
    /\ (pc \in {"scan", "done", "error"}) =>
          excludeListProgramPatterns =
              IF x.IncludeSnapdPrograms THEN <<>> ELSE DefaultExcludeList
    /\ (FilesDone /\ ~x.IncludeSnapdPrograms) =>
          \A i \in DOMAIN AllFiles : ~DefaultExcluded(AllFiles[i].Program)
    /\ (FilesDone /\ x.IncludeSnapdPrograms) =>
          \A i \in DOMAIN Processes : \A k \in DOMAIN Processes[i].PathAccesses :
              (/\ OptionAccepts(x.FileRegex, Processes[i].PathAccesses[k].Path)
               /\ OptionAccepts(x.ProgramRegex, Processes[i].Exe))
              => Listed(Processes[i].PathAccesses[k].Path, Processes[i].Exe, Processes[i].pid)

\* C14 witness: a run with default options in which a snapd helper opened /x:
\* the access is held by the helper's record and the output is empty
C14_Witness ==
    /\ FilesDone
    /\ x = NoOptions
    /\ Len(Processes) = 1
    /\ DefaultExcluded(Processes[1].Exe)
    /\ Len(Processes[1].PathAccesses) = 1
    /\ Processes[1].PathAccesses[1].Path = "/x"
    /\ AllFiles = <<>>

\* a run with --include-snapd-programs lists the access of the snapd helper
C14_IncludedRun ==
    /\ FilesDone
    /\ x.IncludeSnapdPrograms
    /\ \E i \in DOMAIN AllFiles : DefaultExcluded(AllFiles[i].Program)

\* ---- what one line of a file-mode log results in ----
\* the step handles one line of a file-mode log in the scan loop
FileReadStep == mode = "files" /\ ReadStep /\ pc' = "scan"

\* an exec transition: a tracker entry is opened
ExecTransition == opens' = opens + 1

\* a termination transition: a record is closed and no entry is opened
TerminationTransition == Len(added') = Len(added) + 1 /\ opens' = opens

\* a path-access event is recorded
PathEvent == Len(pathProcesses') = Len(pathProcesses) + 1

C16_TotalTimeFirstToLast ==
    (pc = "done") =>
        TotalTime = unixFloatSecondsToTime(line.time) - unixFloatSecondsToTime(firstLine.time)

\* C16 witness: a returned timing parse with cap 1 in which a record was
\* evicted, the retained record does not start at the first line, and the
\* total time is that of two ticks
C16_Witness ==
    /\ mode = "timing" /\ pc = "done"
    /\ nSlowestSamples = 1
    /\ Len(added) = 2 /\ Len(ExeRuntimes) = 1
    /\ ExeRuntimes[1].Start > unixFloatSecondsToTime(firstLine.time)
    /\ line.time = firstLine.time + 2
    /\ TotalTime = unixFloatSecondsToTime(line.time) - unixFloatSecondsToTime(firstLine.time)

\* C17: an ExecveTiming built with cap 0 (or with the -1 the exec command
\* passes) never evicts: after any sequence of addExeRuntime calls the retained
\* list is the list of all samples added, in the order they were added.
C17_CapZeroKeepsAll ==
    (pc = "api" /\ nSlowestSamples <= 0) => ExeRuntimes = added

\* C17 witness: cap 0, and the largest number of samples has been added, among
\* them two of different durations and two of the same
C17_Witness ==
    /\ pc = "api" /\ nSlowestSamples = 0
    /\ Len(added) = MaxAdds /\ Len(ExeRuntimes) = MaxAdds
    /\ \E i, j \in DOMAIN ExeRuntimes : ExeRuntimes[i].TotalSec < ExeRuntimes[j].TotalSec
    /\ \E i, j \in DOMAIN ExeRuntimes : i # j /\ ExeRuntimes[i].TotalSec = ExeRuntimes[j].TotalSec

\* the line starts with "<pid> <timestamp>"
WellFormed(l) == l.kind \notin {"none", "garbage"}

\* the step is the stream-end step of either entry point
StreamEndStep == pc = "scan" /\ pc' \in {"done", "error"} /\ nLines' = nLines

\* C18: reading a line that starts with "<pid> <timestamp>" is never an error;
\* and at the end of a non-empty log whose first and last lines start that way
\* and in which no line led to an exec transition or a path access, the parse
\* returns a result and no error, with no execution record, no process record,
\* no file entry, and TotalTime = last timestamp - first timestamp.
C18_NoMatchIsNotAnError ==
    [][/\ (ReadStep /\ WellFormed(line')) => pc' = "scan"
       /\ (/\ StreamEndStep
           /\ nLines > 0 /\ WellFormed(firstLine) /\ WellFormed(line)
           /\ opens = 0 /\ pathProcesses = <<>>)
          => /\ pc' = "done" /\ result' = "trace" /\ err' = ""
             /\ ExeRuntimes' = <<>> /\ Processes' = <<>> /\ AllFiles' = <<>>
             /\ TotalTime' = unixFloatSecondsToTime(line.time)
                             - unixFloatSecondsToTime(firstLine.time)]_vars

\* C18 witness: a file-mode log of two lines that no matcher claims, one tick
\* apart, has been parsed and an empty result returned
C18_Witness ==
    /\ mode = "files" /\ pc = "done" /\ result = "trace" /\ err = ""
    /\ nLines = 2
    /\ firstLine.kind = "other" /\ line.kind = "other"
    /\ line.time = firstLine.time + 1
    /\ Processes = <<>> /\ AllFiles = <<>>
    /\ TotalTime = unixFloatSecondsToTime(line.time) - unixFloatSecondsToTime(firstLine.time)

\* C19: when the first line read does not start with "<pid> <timestamp>", and
\* when at the end of the stream the last line read does not (an empty log
\* included), the entry point returns an error and a nil result; and whenever an
\* entry point returns an error the result it returns is nil.
C19_ErrorMeansNilResult ==
    [][/\ (ReadStep /\ nLines = 0 /\ ~WellFormed(line'))
          => (pc' = "error" /\ result' = "nil" /\ err' # "")
       /\ (StreamEndStep /\ ~WellFormed(line))
          => (pc' = "error" /\ result' = "nil" /\ err' # "")
       /\ (pc' = "error") => (result' = "nil" /\ err' # "")
       /\ (result' = "trace") => (pc' = "done" /\ err' = "")]_vars

\* C19 witness: a file-mode parse closed a process record and then ended on a
\* line that does not scan: an error came back with a nil result although the
\* tracer holds the record
C19_Witness ==
    /\ mode = "files" /\ pc = "error" /\ result = "nil"
    /\ err = "cannot parse end of exec profile"
    /\ nLines = MaxFileLines
    /\ line.kind = "garbage"
    /\ Len(Processes) = 1

\* ---- malformed patterns ----
\* C20: when a malformed pattern is reported, no line of the log has been
\* parsed: neither the file command's rejection of a regex option nor the
\* "pattern is invalid" error of TraceExecveWithFiles comes after a line was read.
C20_PatternErrorBeforeParsing ==
    (pc = "rejected" \/ err = "internal error: pattern is invalid") => nLines = 0

\* the half of C20 that the file command keeps: a regex option that does not
\* compile is rejected before the log is read, and a run whose option does not
\* compile reads no line
C20_RegexRejectedBeforeParsing ==
    /\ (pc = "rejected") => nLines = 0
    /\ (x.FileRegex = "(" \/ x.ProgramRegex = "(") => (pc \in {"cli", "rejected"} /\ nLines = 0)

\* a malformed exclude pattern that is never reported: the parse of a log in
\* which no access reaches the exclude list returns a result
C20_MalformedGlobUnnoticed ==
    /\ mode = "files" /\ pc = "done" /\ result = "trace"
    /\ excludeListProgramPatterns = <<"[">>
    /\ nLines > 0

\* ---- the exec command and its reader goroutine ----
\* a step of the goroutine that reads or writes the parse state or the result
ReaderTouches == ReaderOpen \/ ReaderReadLine \/ ReaderEOF \/ ReaderSend

\* a step of Execute that reads or writes the parse result
MainTouches == DisplayTimings

\* C21: in a traced run of the exec command the parse state and the result are
\* touched by the reader goroutine alone until it has sent its result: every
\* change of them is a step of the goroutine taken before Execute has received,
\* or the sort of Display taken after the goroutine has sent; Execute holds the
\* result only after the goroutine has sent it, and then it is the result of
\* the finished parse; and in no state can both a step of the goroutine that
\* touches the result and a step of Execute that touches it be taken.
C21_ReaderOwnsParseUntilDone ==
    /\ []((main \in {"received", "recorded"}) =>
            /\ reader \in {"sent", "finished"}
            /\ pc = "done" /\ result = "trace" /\ err = ""
            /\ slg = "trace")
    /\ []((slg # "nil") => main \in {"received", "recorded"})
    /\ [](~(ENABLED ReaderTouches /\ ENABLED MainTouches))
    /\ [][(parseVars' # parseVars /\ main # "setup") =>
            \/ reader \in {"opening", "blocked", "running"} /\ main \notin {"received", "recorded"}
                  /\ main' = main
            \/ reader \in {"sent", "finished"} /\ main = "received" /\ main' = "recorded"]_vars

\* C21 witness: the goroutine parsed a log with one exec, sent its result and
\* closed the channel; Execute received the result and displayed the one row
C21_Witness ==
    /\ main = "recorded" /\ reader = "finished" /\ doneCh.closed
    /\ slg = "trace" /\ pc = "done"
    /\ nLines = MaxExecLines
    /\ Len(ExeRuntimes) = 1
    /\ out.printed /\ Len(out.rows) = 1

\* Execute is blocked in the receive while the goroutine is still parsing
C21_MainWaitsForReader ==
    /\ main = "closing" /\ reader = "running" /\ pc = "scan"
    /\ nLines > 0 /\ nLines < MaxExecLines

\* ---- the order of the file list ----
\* the place of a path in the byte order of the model's strings
PathRank(p) == CHOOSE i \in DOMAIN PathOrder : PathOrder[i] = p

\* C22: the file list returned by TraceExecveWithFiles is in non-decreasing
\* order of Path: no entry comes before an entry of a smaller Path.
C22_AllFilesSortedByPath ==
    FilesDone =>
        \A i, j \in DOMAIN AllFiles :
            i < j => PathRank(AllFiles[i].Path) <= PathRank(AllFiles[j].Path)

\* C22 witness: the first process opened /y and then /x, so the list was built
\* with /y first; the returned list has /x first and /y last
C22_Witness ==
    /\ FilesDone
    /\ Len(Processes) >= 1 /\ Len(Processes[1].PathAccesses) = 2
    /\ Processes[1].PathAccesses[1].Path = "/y" /\ Processes[1].PathAccesses[2].Path = "/x"
    /\ Len(AllFiles) >= 2
    /\ AllFiles[1].Path = "/x" /\ AllFiles[Len(AllFiles)].Path = "/y"

\* ---- the timing display ----
\* the earliest Start of a non-empty list of samples
EarliestStart(rts) ==
    CHOOSE m \in {rts[i].Start : i \in DOMAIN rts} : \A i \in DOMAIN rts : m <= rts[i].Start

\* a duration in whole microseconds, as written
Micros(d) == Quot(d, 1000)

\* C23: Display writes nothing for an empty list; else it writes one row per
\* retained record, in ascending order of start time (the list itself is left
\* in that order, with the same records), and row i carries, in whole
\* microseconds, start(i) - (earliest start of the list) and that offset plus
\* the record's duration, with the duration and image of the record; so the
\* first row's relative start is 0 and no relative start is negative.
C23_DisplaySortedRelative ==
    [][(pc = "show" /\ pc' = "shown") =>
        IF ExeRuntimes = <<>> THEN ~out'.printed /\ out'.rows = <<>>
        ELSE /\ out'.printed
             /\ Len(ExeRuntimes') = Len(ExeRuntimes) /\ Len(out'.rows) = Len(ExeRuntimes)
             /\ \A i \in DOMAIN ExeRuntimes :
                   Count(ExeRuntimes', ExeRuntimes[i]) = Count(ExeRuntimes, ExeRuntimes[i])
             /\ \A i, j \in DOMAIN ExeRuntimes' :
                   i < j => ExeRuntimes'[i].Start <= ExeRuntimes'[j].Start
             /\ \A i \in DOMAIN out'.rows :
                   LET rec == ExeRuntimes'[i]
                       rel == rec.Start - EarliestStart(ExeRuntimes)
                   IN /\ out'.rows[i].Start = Micros(rel)
                      /\ out'.rows[i].Stop = Micros(rel + rec.TotalSec)
                      /\ out'.rows[i].Elapsed = rec.TotalSec
                      /\ out'.rows[i].Exec = rec.Exe
                      /\ out'.rows[i].Start >= 0
             /\ out'.rows[1].Start = 0
             /\ out'.TotalTime = TotalTime]_vars

\* C23 witness: three samples were added latest first; they are written
\* earliest first, at 0, 118 and 238 microseconds, the second one running
\* 11920 ns, from 118 to 130
C23_Witness ==
    /\ pc = "shown" /\ out.printed
    /\ Len(added) = 3
    /\ added[1].Start > added[2].Start /\ added[2].Start > added[3].Start
    /\ added[2].TotalSec = DurationOf(50)
    /\ ExeRuntimes = <<added[3], added[2], added[1]>>
    /\ out.rows[1].Start = 0 /\ out.rows[2].Start = 118 /\ out.rows[3].Start = 238
    /\ out.rows[2].Stop = 130 /\ out.rows[2].Elapsed = 11920

\* ---- the deleted-file marker ----
\* the path ends with the marker "(deleted)" (the paths of the model)
EndsWithMarker(p) == p \in {"/y (deleted)", "/d/r (deleted)", "/z(deleted)"}

\* the path ends with the marker as strace writes it, after a space
EndsWithSpaceMarker(p) == p \in {"/y (deleted)", "/d/r (deleted)"}

\* C24: no path recorded as a path access by a path matcher ends with the
\* deleted-file marker "(deleted)".
C24_NoRecordedPathEndsDeleted ==
    \A k \in DOMAIN pathProcesses : ~EndsWithMarker(pathProcesses[k].Path)

\* what the handlers of the fd-only, AT_FDCWD and fd-plus-relative-path
\* matchers keep of C24: a path they record does not end with " (deleted)"
C24_FdMatchersTrimSpaceMarker ==
    [][FileReadStep =>
        LET l == line'
        IN (fdAndPathRE(l) # <<>> \/ fdRE(l) # <<>> \/ absPathWithCWDRE(l) # <<>>)
           => /\ PathEvent
              /\ ~EndsWithSpaceMarker(pathProcesses'[Len(pathProcesses')].Path)]_vars

\* a bare-absolute-path line left its path recorded with the marker on it
C24_MarkerRecorded ==
    /\ mode = "files" /\ pc = "scan" /\ nLines = 1
    /\ line.kind \in {"abs", "absfirst"}
    /\ line.path = "/y (deleted)"
    /\ pathProcesses = <<[Time |-> unixFloatSecondsToTime(line.time), Path |-> "/y (deleted)",
                          Syscall |-> IF line.kind = "abs" THEN "newfstatat" ELSE "readlink",
                          pid |-> line.pid]>>

\* ---- internal/files: EnsureExistsAndOpen ----
\* the names of the model's file system
FileNames == {"/tmp/out", "/tmp/err"}

\* what a name can be: nothing, a directory, or a regular file with content
Nodes == {[kind |-> "absent", content |-> ""],
          [kind |-> "dir", content |-> ""],
          [kind |-> "file", content |-> ""],
          [kind |-> "file", content |-> "something"]}

\* the system call that fails for a reason other than the node's kind
\* ("stat": the path cannot be reached, so that opening it fails too)
Faults == {"none", "stat", "open", "remove", "create"}

\* os.Stat: the error and whether the name is a directory
Stat(node, fault) ==
    IF fault = "stat" THEN [err |-> "EACCES", IsDir |-> FALSE]
    ELSE IF node.kind = "absent" THEN [err |-> "ENOENT", IsDir |-> FALSE]
    ELSE [err |-> "", IsDir |-> node.kind = "dir"]

\* fileExistsQ: the name can be examined and is not a directory
fileExistsQ(node, fault) ==
    LET st == Stat(node, fault)
    IN IF st.err = "ENOENT" THEN FALSE
       ELSE st.err = "" /\ ~st.IsDir

\* os.OpenFile(fname, O_WRONLY|O_APPEND|O_TRUNC, 0644): the file is emptied
OpenAppend_truncating(fname, node, fault) ==
    IF fault \in {"open", "stat"}
    THEN [file |-> NilFile, err |-> "open: permission denied", node |-> node]
    ELSE [file |-> [name |-> fname, flag |-> "O_WRONLY|O_APPEND"], err |-> "",
          node |-> [kind |-> "file", content |-> ""]]

\* os.OpenFile(fname, O_WRONLY|O_APPEND, 0644) on a regular file
OpenAppend(fname, node, fault) ==
    IF fault \in {"open", "stat"}
    THEN [file |-> NilFile, err |-> "open: permission denied", node |-> node]
    ELSE [file |-> [name |-> fname, flag |-> "O_WRONLY|O_APPEND"], err |-> "", node |-> node]

\* os.Create(fname): O_RDWR|O_CREATE|O_TRUNC, which a directory refuses
Create(fname, node, fault) ==
    IF node.kind = "dir"
    THEN [file |-> NilFile, err |-> "open: is a directory", node |-> node]
    ELSE IF fault \in {"create", "stat"}
    THEN [file |-> NilFile, err |-> "open: permission denied", node |-> node]
    ELSE [file |-> [name |-> fname, flag |-> "O_RDWR|O_CREATE|O_TRUNC"], err |-> "",
          node |-> [kind |-> "file", content |-> ""]]

\* EnsureExistsAndOpen's result: the handle, the error and what the name is afterwards
EnsureResult(fname, delete, node, fault) ==
    LET fExists == fileExistsQ(node, fault)
    IN IF fExists /\ ~delete
       THEN OpenAppend(fname, node, fault)
       ELSE IF fExists /\ delete /\ fault = "remove"
       THEN [file |-> NilFile, err |-> "remove: permission denied", node |-> node]
       ELSE IF fExists /\ delete
       THEN Create(fname, [kind |-> "absent", content |-> ""], fault)
       ELSE Create(fname, node, fault)

\* what the helpers of internal/files and internal/commands leave alone
traceVars == <<x, mode, nSlowestSamples, args, ExeRuntimes, Processes, pathProcesses, allFilesSet,
               pidToExeStart, TotalTime, start, startPID, line, nLines, result,
               opens, added, firstLine, lastExec,
               main, reader, doneCh, fw, cmd, slg, out>>

\* no trace is being taken: a helper is about to be called
InitHelper ==
    /\ pc = "helper"
    /\ mode = "timing"
    /\ nSlowestSamples = 0
    /\ x = NoOptions
    /\ InitCommon
    /\ main = "none"
    /\ reader = "none"
    /\ doneCh = [buf |-> <<>>, closed |-> FALSE]
    /\ fw = "none"
    /\ cmd = "none"
    /\ slg = "nil"
    /\ out = NoOutput
    /\ call = [fn |-> "none"]
    /\ file = NilFile
    /\ NoWait

\* EnsureExistsAndOpen(fname, delete), with the outcome of each system call
EnsureExistsAndOpen ==
    /\ pc = "helper"
    /\ \E fname \in FileNames, delete \in BOOLEAN, fault \in Faults :
        LET r == EnsureResult(fname, delete, fs[fname], fault)
        IN /\ call' = [fn |-> "EnsureExistsAndOpen", fname |-> fname, delete |-> delete]
           /\ fs' = [fs EXCEPT ![fname] = r.node]
           /\ file' = r.file
           /\ err' = r.err
    /\ pc' = "returned"
    /\ UNCHANGED <<traceVars, userCurrent, sudoLookup, command, waitVars>>

\* any file system over the model's names, before the call
InitEnsure ==
    /\ InitHelper
    /\ fs \in [FileNames -> Nodes]
    /\ userCurrent = [Uid |-> "0", err |-> ""]
    /\ sudoLookup = [path |-> "", err |-> ""]
    /\ command = NoCommand

NextEnsure == EnsureExistsAndOpen

SpecEnsure == InitEnsure /\ [][NextEnsure]_vars

\* ---- claims about EnsureExistsAndOpen ----
\* C25: when EnsureExistsAndOpen(fname, delete) succeeds, the returned handle
\* is open on fname and fname is a regular file afterwards: with its previous
\* content if it was a regular file and delete is false, empty if it was a
\* regular file and delete is true, and empty if it did not exist; when fname
\* is a directory the call returns an error.
C25_EnsureExistsAndOpen ==
    [][EnsureExistsAndOpen =>
        LET n == call'.fname
            before == fs[n]
            after == fs'[n]
        IN /\ before.kind = "dir" => err' # "" /\ file' = NilFile
           /\ err' = "" =>
                /\ file' # NilFile /\ file'.name = n
                /\ after.kind = "file"
                /\ (before.kind = "file" /\ ~call'.delete) => after.content = before.content
                /\ (before.kind = "file" /\ call'.delete) => after.content = ""
                /\ before.kind = "absent" => after.content = ""
           /\ \A m \in FileNames \ {n} : fs'[m] = fs[m]]_vars

\* an existing file was opened without deleting it and kept its content, while
\* the other name is a directory
C25_Witness ==
    /\ pc = "returned" /\ err = ""
    /\ call = [fn |-> "EnsureExistsAndOpen", fname |-> "/tmp/out", delete |-> FALSE]
    /\ file = [name |-> "/tmp/out", flag |-> "O_WRONLY|O_APPEND"]
    /\ fs["/tmp/out"] = [kind |-> "file", content |-> "something"]
    /\ fs["/tmp/err"].kind = "dir"

\* an existing file was deleted and created again, empty
C25_DeletedAndCreated ==
    /\ pc = "returned" /\ err = ""
    /\ call = [fn |-> "EnsureExistsAndOpen", fname |-> "/tmp/out", delete |-> TRUE]
    /\ file = [name |-> "/tmp/out", flag |-> "O_RDWR|O_CREATE|O_TRUNC"]
    /\ fs["/tmp/out"] = [kind |-> "file", content |-> ""]

\* ---- internal/commands: AddSudoIfNeeded ----
\* what user.Current() can return: root, a user, or an error
UserResults == {[Uid |-> "0", err |-> ""],
                [Uid |-> "1000", err |-> ""],
                [Uid |-> "", err |-> "user: Current not implemented"]}

\* what exec.LookPath("sudo") can return
SudoLookups == {[path |-> "/usr/bin/sudo", err |-> ""],
                [path |-> "", err |-> "exec: \"sudo\": executable file not found in $PATH"]}

\* the commands handed in: the zero Path of the tests, or the Path of straceCommand
Commands == {[Path |-> pth, Args |-> a] :
                pth \in {"", "/usr/bin/strace"},
                a \in {<<>>, <<"foo">>, <<"/usr/bin/strace", "-f">>}}

SudoArgLists == {<<>>, <<"-E">>, <<"-E", "-n">>}

\* AddSudoIfNeeded(cmd, sudoArgs...)
AddSudoIfNeeded ==
    /\ pc = "helper"
    /\ \E sudoArgs \in SudoArgLists :
        /\ call' = [fn |-> "AddSudoIfNeeded", sudoArgs |-> sudoArgs]
        /\ IF userCurrent.err # ""
           THEN err' = userCurrent.err /\ command' = command
           ELSE IF userCurrent.Uid # "0"
           THEN IF sudoLookup.err # ""
                THEN /\ err' = "cannot use strace without running as root or without sudo: "
                                    \o sudoLookup.err
                     /\ command' = command
                ELSE /\ command' = [command EXCEPT
                                       !.Args = <<sudoLookup.path>> \o sudoArgs \o @]
                     /\ err' = ""
           ELSE err' = "" /\ command' = command
    /\ pc' = "returned"
    /\ UNCHANGED <<traceVars, fs, file, userCurrent, sudoLookup, waitVars>>

\* any user, any outcome of the lookup of sudo, any command
InitSudo ==
    /\ InitHelper
    /\ fs = <<>>
    /\ userCurrent \in UserResults
    /\ sudoLookup \in SudoLookups
    /\ command \in Commands

NextSudo == AddSudoIfNeeded

SpecSudo == InitSudo /\ [][NextSudo]_vars

\* ---- claims about AddSudoIfNeeded ----
\* C26: AddSudoIfNeeded leaves the command unchanged when the current user is
\* root; when the user is not root and sudo is found, cmd.Path becomes the path
\* of sudo and cmd.Args becomes the path of sudo, then the sudo arguments, then
\* the original arguments; when the user is not root and sudo is not found it
\* returns an error.
C26_AddSudoIfNeeded ==
    [][AddSudoIfNeeded =>
        /\ (userCurrent.err = "" /\ userCurrent.Uid = "0")
              => err' = "" /\ command' = command
        /\ (userCurrent.err = "" /\ userCurrent.Uid # "0" /\ sudoLookup.err = "")
              => /\ err' = ""
                 /\ command'.Path = sudoLookup.path
                 /\ command'.Args = <<sudoLookup.path>> \o call'.sudoArgs \o command.Args
        /\ (userCurrent.err = "" /\ userCurrent.Uid # "0" /\ sudoLookup.err # "")
              => err' # ""]_vars

\* what the code keeps of C26: the same with cmd.Path left as it was
C26_ArgsPrefixedPathKept ==
    [][AddSudoIfNeeded =>
        /\ (userCurrent.err = "" /\ userCurrent.Uid = "0")
              => err' = "" /\ command' = command
        /\ (userCurrent.err = "" /\ userCurrent.Uid # "0" /\ sudoLookup.err = "")
              => /\ err' = ""
                 /\ command'.Path = command.Path
                 /\ command'.Args = <<sudoLookup.path>> \o call'.sudoArgs \o command.Args
        /\ (userCurrent.err = "" /\ userCurrent.Uid # "0" /\ sudoLookup.err # "")
              => err' # "" /\ command' = command]_vars

\* the command of straceCommand after the call as a user: its arguments start
\* with sudo -E while its Path is still strace
C26_PathNotSudo ==
    /\ pc = "returned" /\ err = ""
    /\ call = [fn |-> "AddSudoIfNeeded", sudoArgs |-> <<"-E">>]
    /\ userCurrent.Uid = "1000"
    /\ command = [Path |-> "/usr/bin/strace",
                  Args |-> <<"/usr/bin/sudo", "-E", "/usr/bin/strace", "-f">>]

\* ---- the file command: the wait for the window in cmdFile.Execute ----
\* lines the parse reads after the wait
MaxWinLines == 1

\* for i := 0; i < 10; i++
MaxTries == 10

\* the values of --window-timeout: none, a duration, and one without a unit
TimeoutOpts == {"", "60s", "60"}

\* time.ParseDuration
ParseDuration(str) ==
    IF str = "60s" THEN [ok |-> TRUE, err |-> ""]
    ELSE [ok |-> FALSE, err |-> "time: missing unit in duration"]

DeadlineExceeded == "context deadline exceeded"

\* fmt.Errorf("timed out waiting for window with %s to appear: %w", ..., ctx.Err())
TimedOutError ==
    [msg |-> "timed out waiting for window to appear: " \o DeadlineExceeded,
     wraps |-> DeadlineExceeded]

\* fmt.Errorf("xdotool failed to find window with %s: %v", ...)
NotFoundError == [msg |-> "xdotool failed to find window", wraps |-> ""]

\* errors.Is(err, target)
errorsIs(e, target) == e.wraps = target

\* what the wait leaves alone
scanVars == <<ExeRuntimes, Processes, pathProcesses, allFilesSet, pidToExeStart, TotalTime,
              start, startPID, line, nLines, result, opens, added, firstLine, lastExec,
              x, mode, nSlowestSamples, args,
              reader, doneCh, fw, slg, call, fs, file, userCurrent, sudoLookup, command>>

\* from the window timeout option to cmd.Start() and the entry of the wait
ExecuteStart ==
    /\ main = "options"
    /\ IF currentCmd.WindowWaitGlobalTimeout # ""
          /\ ~ParseDuration(currentCmd.WindowWaitGlobalTimeout).ok
       THEN /\ err' = ParseDuration(currentCmd.WindowWaitGlobalTimeout).err
            /\ main' = "returned"
            /\ UNCHANGED <<cmd, ctx>>
       ELSE \E started \in BOOLEAN :
              IF ~started
              THEN /\ err' = "exec: not started"
                   /\ main' = "returned"
                   /\ UNCHANGED <<cmd, ctx>>
              ELSE /\ cmd' = "running"
                   /\ err' = ""
                   /\ IF currentCmd.NoWindowWait
                      THEN main' = "cmdwait" /\ ctx' = ctx
                      ELSE main' = "wait" /\ ctx' = "live"
    /\ UNCHANGED <<pc, scanVars, out, currentCmd, window, tries, wids, waitErr, errs>>

\* the command ends by itself
CommandEnds ==
    /\ cmd = "running" /\ main \in {"cmdwait", "wait", "waited"}
    /\ cmd' = "exited"
    /\ UNCHANGED <<pc, err, main, scanVars, out, waitVars>>

\* the command shows its window
WindowAppears ==
    /\ cmd = "running" /\ main \in {"cmdwait", "wait"} /\ ~window
    /\ window' = TRUE
    /\ UNCHANGED <<pc, err, main, cmd, scanVars, out,
                   currentCmd, ctx, tries, wids, waitErr, errs>>

\* the timeout of context.WithTimeout expires during the wait
Deadline ==
    /\ ctx = "live" /\ main = "wait"
    /\ currentCmd.WindowWaitGlobalTimeout # ""
    /\ ctx' = "expired"
    /\ UNCHANGED <<pc, err, main, cmd, scanVars, out,
                   currentCmd, window, tries, wids, waitErr, errs>>

\* cmd.Wait() of --no-window-wait
CmdWait ==
    /\ main = "cmdwait" /\ cmd = "exited"
    /\ main' = "close"
    /\ UNCHANGED <<pc, err, cmd, scanVars, out, waitVars>>

\* variant: the deadline is like any other failure of the search
WaitForWindow_try_noDeadlineCheck ==
    /\ main = "wait" /\ tries < MaxTries
    /\ \E found \in {f \in BOOLEAN : f => (window /\ ctx = "live")} :
              IF found
              THEN /\ wids' = <<"w1">>
                   /\ waitErr' = NilError
                   /\ main' = "waited"
                   /\ tries' = tries
              ELSE /\ tries' = tries + 1
                   /\ wids' = wids
                   /\ IF tries + 1 = MaxTries
                      THEN waitErr' = NotFoundError /\ main' = "waited"
                      ELSE waitErr' = waitErr /\ main' = main
    /\ UNCHANGED <<pc, err, cmd, scanVars, out, currentCmd, ctx, window, errs>>

\* one turn of WaitForWindow's loop: xdotool search --sync under the context
WaitForWindow_try ==
    /\ main = "wait" /\ tries < MaxTries
    /\ IF ctx = "expired"
       THEN \* the search is killed or not started, and ctx.Err() is DeadlineExceeded
            /\ waitErr' = TimedOutError
            /\ main' = "waited"
            /\ UNCHANGED <<tries, wids>>
       ELSE \E found \in {f \in BOOLEAN : f => window} :
              IF found
              THEN /\ wids' = <<"w1">>
                   /\ waitErr' = NilError
                   /\ main' = "waited"
                   /\ tries' = tries
              ELSE \* the search failed for another reason: continue
                   /\ tries' = tries + 1
                   /\ wids' = wids
                   /\ IF tries + 1 = MaxTries
                      THEN waitErr' = NotFoundError /\ main' = "waited"
                      ELSE waitErr' = waitErr /\ main' = main
    /\ UNCHANGED <<pc, err, cmd, scanVars, out, currentCmd, ctx, window, errs>>

\* what Execute does with the result of WaitForWindow
AfterWait ==
    /\ main = "waited"
    /\ IF errorsIs(waitErr, DeadlineExceeded)
       THEN \* cmd.Process.Kill(), whose error is logged, and return err
            /\ IF cmd = "running"
               THEN cmd' = "killed" /\ errs' = errs
               ELSE cmd' = cmd /\ errs' = Append(errs, "os: process already finished")
            /\ err' = waitErr.msg
            /\ main' = "returned"
       ELSE IF waitErr # NilError
       THEN \* tryXToolClose = false
            /\ errs' = Append(errs, "waiting for window appearance: " \o waitErr.msg)
            /\ main' = "parse"
            /\ UNCHANGED <<cmd, err>>
       ELSE /\ main' = "close"
            /\ UNCHANGED <<cmd, err, errs>>
    /\ UNCHANGED <<pc, scanVars, out, currentCmd, ctx, window, tries, wids, waitErr>>

\* the windows are closed and their processes killed
CloseWindows ==
    /\ main = "close"
    /\ window' = (window /\ wids = <<>>)
    /\ main' = "parse"
    /\ UNCHANGED <<pc, err, cmd, scanVars, out, currentCmd, ctx, tries, wids, waitErr, errs>>

\* strace.TraceExecveWithFiles(straceLog, ...): a line of the log
ParseReadLine ==
    /\ main = "parse" /\ pc = "scan" /\ mode = "files" /\ nLines < MaxWinLines
    /\ \E l \in FileLines(NextFrom) \cup {GarbageLine(NextFrom)} :
          IF start = 0 /\ ~Sscanf(l).ok
          THEN ScanStartError(l)
          ELSE /\ SetTracer(PathStep(LifecycleStep(Tracer, l), l))
               /\ ScanCommon(l)

\* strace.TraceExecveWithFiles(straceLog, ...): the end of the log
ParseEnd == main = "parse" /\ StreamEndFiles

\* the error of the parse is logged, the restore script run and the result
\* written, as JSON or with execFiles.Display, which reads e.AllFiles of the
\* result
WriteResult ==
    /\ main = "parse" /\ pc \in {"done", "error"}
    /\ \E scriptErr \in ScriptErrors :
          RunRestoreScript(IF err # "" THEN Append(errs, "cannot extract runtime data: " \o err)
                           ELSE errs, scriptErr)
    /\ IF currentCmd.JSONOutput
       THEN /\ out' = [printed |-> TRUE, rows |-> AllFiles, TotalTime |-> 0]
            /\ main' = "returned"
       ELSE IF result = "nil"
       THEN out' = out /\ main' = "panicked"
       ELSE /\ out' = [printed |-> AllFiles # <<>>, rows |-> AllFiles, TotalTime |-> 0]
            /\ main' = "returned"
    /\ err' = ""
    /\ UNCHANGED <<pc, cmd, ExeRuntimes, Processes, pathProcesses, allFilesSet, pidToExeStart,
                   TotalTime, start, startPID, line, nLines, result, opens, added, firstLine,
                   lastExec, x, mode, nSlowestSamples, args, reader, doneCh, fw, slg,
                   fs, file, userCurrent, sudoLookup, command,
                   currentCmd, ctx, window, tries, wids, waitErr>>

\* Execute after its option checks: the regexes and the exclude list are set
InitWindow ==
    /\ pc = "scan"
    /\ mode = "files"
    /\ nSlowestSamples = 0
    /\ x = NoOptions
    /\ fileRegex = ".*"
    /\ programRegex = ".*"
    /\ excludeListProgramPatterns = DefaultExcludeList
    /\ AllFiles = <<>>
    /\ result = "none"
    /\ err = ""
    /\ ExeRuntimes = <<>>
    /\ Processes = <<>>
    /\ pathProcesses = <<>>
    /\ allFilesSet = {}
    /\ pidToExeStart = <<>>
    /\ TotalTime = 0
    /\ start = 0
    /\ startPID = 0
    /\ line = NoLine
    /\ nLines = 0
    /\ opens = 0
    /\ added = <<>>
    /\ firstLine = NoLine
    /\ lastExec = [p \in Pids |-> [exe |-> "", time |-> 0]]
    /\ main = "options"
    /\ reader = "none"
    /\ doneCh = [buf |-> <<>>, closed |-> FALSE]
    /\ fw = "none"
    /\ cmd = "none"
    /\ slg = "nil"
    /\ out = NoOutput
    /\ call = [fn |-> "none"]
    /\ fs = <<>>
    /\ file = NilFile
    /\ userCurrent = [Uid |-> "0", err |-> ""]
    /\ sudoLookup = [path |-> "", err |-> ""]
    /\ command = NoCommand
    /\ currentCmd \in [NoWindowWait : BOOLEAN, WindowWaitGlobalTimeout : TimeoutOpts,
                       JSONOutput : BOOLEAN, RestoreScript : RestoreScripts]
    /\ ctx = "none"
    /\ window = FALSE
    /\ tries = 0
    /\ wids = <<>>
    /\ waitErr = NilError
    /\ errs = <<>>

NextWindow ==
    \/ ExecuteStart \/ CommandEnds \/ WindowAppears \/ Deadline \/ CmdWait
    \/ WaitForWindow_try \/ AfterWait \/ CloseWindows
    \/ ParseReadLine \/ ParseEnd \/ WriteResult

SpecWindow == InitWindow /\ [][NextWindow]_vars

\* ---- claims about the window timeout ----
\* C27: in file mode with window waiting, when the timeout of the wait expires
\* before a window is found, WaitForWindow stops retrying and returns an error
\* that wraps the deadline-exceeded error, the command that was started is
\* killed, and Execute returns that error without parsing the trace log.
C27_TimeoutStopsRun ==
    /\ [](ctx = "expired" =>
            /\ main \in {"wait", "waited", "returned"}
            /\ main # "wait" => waitErr = TimedOutError /\ wids = <<>>
            /\ main = "returned" =>
                  /\ err = TimedOutError.msg
                  /\ cmd \in {"killed", "exited"}
                  /\ pc = "scan" /\ nLines = 0 /\ result = "none"
                  /\ out = NoOutput)
    /\ [][/\ (WaitForWindow_try /\ ctx = "expired") =>
                /\ main' = "waited" /\ tries' = tries
                /\ errorsIs(waitErr', DeadlineExceeded)
          /\ (AfterWait /\ ctx = "expired") =>
                /\ main' = "returned"
                /\ cmd = "running" => cmd' = "killed"]_vars

\* the timeout expired after two failed searches with no window shown: the
\* command was killed and Execute returned the error with nothing parsed
C27_Witness ==
    /\ main = "returned" /\ ctx = "expired" /\ tries = 2 /\ ~window
    /\ currentCmd.WindowWaitGlobalTimeout = "60s" /\ ~currentCmd.NoWindowWait
    /\ cmd = "killed" /\ errs = <<>>
    /\ err = TimedOutError.msg
    /\ nLines = 0 /\ pc = "scan" /\ out = NoOutput

\* the command had ended by itself when the timeout expired: the failed kill
\* is logged and the same error returned
C27_AlreadyExited ==
    /\ main = "returned" /\ ctx = "expired" /\ cmd = "exited"
    /\ errs = <<"os: process already finished">>
    /\ err = TimedOutError.msg

\* ---- the order of the path matchers ----
\* the path of the access the step recorded
RecordedPath == pathProcesses'[Len(pathProcesses')].Path

\* C28: in the scan loop of TraceExecveWithFiles the fd-plus-relative-path
\* matcher and the AT_FDCWD matcher are both tried before the fd-only matcher
\* and before the bare-absolute-path matchers: a line either of them matches is
\* recorded with its path, whatever the later matchers find in the line.
C28_SpecificMatchersFirst ==
    [][FileReadStep =>
        LET l == line'
        IN /\ fdAndPathRE(l) # <<>> =>
                /\ PathEvent
                /\ RecordedPath = TrimDeleted(Join(fdAndPathRE(l)[4], fdAndPathRE(l)[5]))
           /\ (fdAndPathRE(l) = <<>> /\ absPathWithCWDRE(l) # <<>>) =>
                /\ PathEvent
                /\ RecordedPath = TrimDeleted(absPathWithCWDRE(l)[4])]_vars

\* the order of the code: fd-plus-relative-path, fd-only, AT_FDCWD, absolute
\* path, absolute path as first argument; the first that matches records
C28_OrderOfTheCode ==
    [][FileReadStep =>
        LET l == line'
        IN IF fdAndPathRE(l) # <<>>
           THEN PathEvent /\ RecordedPath = TrimDeleted(Join(fdAndPathRE(l)[4], fdAndPathRE(l)[5]))
           ELSE IF fdRE(l) # <<>>
           THEN PathEvent /\ RecordedPath = TrimDeleted(fdRE(l)[4])
           ELSE IF absPathWithCWDRE(l) # <<>>
           THEN PathEvent /\ RecordedPath = TrimDeleted(absPathWithCWDRE(l)[4])
           ELSE IF absPathRE(l) # <<>>
           THEN PathEvent /\ RecordedPath = absPathRE(l)[4]
           ELSE IF absPathFirstRE(l) # <<>>
           THEN PathEvent /\ RecordedPath = absPathFirstRE(l)[4]
           ELSE ~PathEvent]_vars

\* a line with an AT_FDCWD path and an annotated descriptor was claimed by the
\* fd-only matcher: the descriptor's path is recorded, not the AT_FDCWD path
C28_FdOnlyClaimsCwdLine ==
    /\ mode = "files" /\ pc = "scan" /\ nLines = 1
    /\ line = CwdFdLine(1, 1, "/x", "/d")
    /\ Len(pathProcesses) = 1
    /\ pathProcesses[1].Path = "/d"
    /\ pathProcesses[1].Syscall = "linkat"

\* ---- the intervals of the records of a pid ----
\* the half-open intervals [Start, Start + RunDuration) of two records share a time
Overlap(p, q) ==
    LET lo == IF p.Start > q.Start THEN p.Start ELSE q.Start
        pEnd == p.Start + p.RunDuration
        qEnd == q.Start + q.RunDuration
        hi == IF pEnd < qEnd THEN pEnd ELSE qEnd
    IN lo < hi

\* C29: for a log with non-decreasing timestamps, no two execution records of
\* the same pid have overlapping intervals [start, start + duration), so the
\* correlation pass never finds two records of a pid holding the same time.
C29_NoOverlapPerPid ==
    /\ \A i, j \in DOMAIN Processes :
          (i < j /\ Processes[i].pid = Processes[j].pid)
              => ~Overlap(Processes[i], Processes[j])
    /\ \A p \in Pids, t \in 1..MaxTime :
          Cardinality({i \in DOMAIN Processes :
                          /\ Processes[i].pid = p
                          /\ Processes[i].Start <= unixFloatSecondsToTime(t)
                          /\ unixFloatSecondsToTime(t)
                                 < Processes[i].Start + Processes[i].RunDuration}) <= 1

\* two records of one pid, both of positive duration, the second starting
\* where the first ends
C29_Witness ==
    /\ mode = "files" /\ Len(Processes) = 2
    /\ Processes[1].pid = Processes[2].pid
    /\ Processes[1].RunDuration > 0 /\ Processes[2].RunDuration > 0
    /\ Processes[1].Start + Processes[1].RunDuration = Processes[2].Start

\* ---- the live entries of the tracker ----
\* C30: at every point of the stream each pid has at most one live entry, and
\* it is the image and time of the pid's most recent exec event that no
\* termination event of the pid has followed; a pid without such an exec has
\* no entry.
C30_LiveEntryIsLatestExec ==
    pc = "scan" =>
        \A p \in Pids :
            IF lastExec[p].exe = ""
            THEN p \notin DOMAIN pidToExeStart
            ELSE /\ p \in DOMAIN pidToExeStart
                 /\ pidToExeStart[p].exe = lastExec[p].exe
                 /\ pidToExeStart[p].start = lastExec[p].time

\* pid 1 ran /a and then /b, pid 2 ran and ended in between: the only live
\* entry is /b of pid 1, from the time of the last line
C30_Witness ==
    /\ mode = "timing" /\ pc = "scan" /\ nLines = 4 /\ opens = 3 /\ Len(added) = 2
    /\ DOMAIN pidToExeStart = {1}
    /\ pidToExeStart[1].exe = "/b"
    /\ pidToExeStart[1].start = line.time
    /\ line.kind = "execve" /\ line.time > firstLine.time
    /\ firstLine.exe = "/a"
    /\ lastExec[2].exe = ""

\* ---- the length of the retained list ----
Min(a, b) == IF a < b THEN a ELSE b

\* C31: with a cap K > 0, after every addExeRuntime call the retained list has
\* length min(N, K), N being the number of calls so far, whatever the
\* durations (ties included); and prune terminates: each turn of its loop
\* removes exactly one element, at an index of the list.
C31_RetainedLength ==
    nSlowestSamples > 0 =>
        /\ Len(ExeRuntimes) = Min(Len(added), nSlowestSamples)
        /\ ExeRuntimes # <<>> =>
              LET fastest == fastestFrom(ExeRuntimes, 1, 1)
              IN /\ fastest \in 1..Len(ExeRuntimes)
                 /\ Len(Remove(ExeRuntimes, fastest)) = Len(ExeRuntimes) - 1

\* three calls with the same duration under a cap of one: one sample is kept
C31_Witness ==
    /\ pc = "api" /\ nSlowestSamples = 1
    /\ Len(added) = 3 /\ Len(ExeRuntimes) = 1
    /\ \A i \in 1..3 : added[i].TotalSec = added[1].TotalSec

\* ---- one path access per line ----
\* C32: no log line is recorded as more than one path access: a line the
\* fd-plus-relative-path matcher claims is recorded once, with the joined
\* path, and not again by the fd-only matcher, and once a matcher has recorded
\* a line no later matcher records it.
C32_OneAccessPerLine ==
    /\ [](mode = "files" => Len(pathProcesses) <= nLines)
    /\ [][FileReadStep =>
            LET l == line'
            IN /\ Len(pathProcesses') <= Len(pathProcesses) + 1
               /\ fdAndPathRE(l) # <<>> =>
                     /\ PathEvent
                     /\ RecordedPath = TrimDeleted(Join(fdAndPathRE(l)[4], fdAndPathRE(l)[5]))]_vars

\* a line that the fd-plus-relative-path, the fd-only and the absolute-path
\* matcher all match left one access, the joined path
C32_Witness ==
    /\ mode = "files" /\ pc = "scan" /\ nLines = 1
    /\ line = FdPathLine(1, 1, "/d", "r")
    /\ fdAndPathRE(line) # <<>> /\ fdRE(line) # <<>> /\ absPathRE(line) # <<>>
    /\ Len(pathProcesses) = 1
    /\ pathProcesses[1].Path = "/d/r"

\* ---- what recording a path access writes ----
\* some path matcher matches the line
PathMatched(l) ==
    \/ fdAndPathRE(l) # <<>> \/ fdRE(l) # <<>> \/ absPathWithCWDRE(l) # <<>>
    \/ absPathRE(l) # <<>> \/ absPathFirstRE(l) # <<>>

\* C33 as stated: recording a path access appends it to the raw event list and
\* adds its path to the accessed-paths set, so that during the scan the set is
\* the set of the paths of the recorded events.
C33_SetMirrorsEvents ==
    (mode = "files" /\ pc = "scan") =>
        allFilesSet = {pathProcesses[k].Path : k \in DOMAIN pathProcesses}

\* C33 amended: recording a path access appends it to the raw event list, once
\* for every line a path matcher matches (a path recorded before is recorded
\* again), and writes nothing else: no set of accessed paths is kept.
C33_RecordAppendsOnly ==
    /\ [](allFilesSet = {})
    /\ [][FileReadStep =>
            /\ PathMatched(line') <=> PathEvent
            /\ PathEvent => /\ SubSeq(pathProcesses', 1, Len(pathProcesses)) = pathProcesses
                            /\ pathProcesses'[Len(pathProcesses')].pid = line'.pid
                            /\ pathProcesses'[Len(pathProcesses')].Time
                                  = unixFloatSecondsToTime(line'.time)
            /\ ~PathEvent => pathProcesses' = pathProcesses]_vars

\* two lines accessed the same path: two events, and no set of paths
C33_Witness ==
    /\ mode = "files" /\ pc = "scan" /\ nLines = 2
    /\ Len(pathProcesses) = 2
    /\ pathProcesses[1].Path = "/x" /\ pathProcesses[2].Path = "/x"
    /\ allFilesSet = {}

\* ---- attribution of the reported files ----
\* the step in which the file-mode parse returns its result
FilesReturn == mode = "files" /\ pc = "scan" /\ pc' = "done" /\ result' = "trace"

\* C34: every entry of the file-mode output derives from a recorded access
\* attached to a process record of the access's pid whose interval contains
\* the access time; an access no record of its pid contains is attached to no
\* record, and no entry of the output derives from it.
C34_SoundAttribution ==
    [][FilesReturn =>
        /\ \A n \in DOMAIN AllFiles' :
              \E k \in DOMAIN pathProcesses : \E i \in DOMAIN Processes' :
                 /\ InRuntime(Processes'[i], pathProcesses[k])
                 /\ Attached(Processes', i, pathProcesses[k])
                 /\ AllFiles'[n].Path = pathProcesses[k].Path
                 /\ AllFiles'[n].pid = pathProcesses[k].pid
                 /\ AllFiles'[n].Program = Processes'[i].Exe
        /\ \A i \in DOMAIN Processes' : \A a \in Range(Processes'[i].PathAccesses) :
              a \in Range(pathProcesses) /\ InRuntime(Processes'[i], a)
        /\ \A k \in DOMAIN pathProcesses :
              (\A i \in DOMAIN Processes' : ~InRuntime(Processes'[i], pathProcesses[k]))
              => /\ \A i \in DOMAIN Processes' : ~Attached(Processes', i, pathProcesses[k])
                 /\ \A n \in DOMAIN AllFiles' :
                       (AllFiles'[n].Path = pathProcesses[k].Path
                           /\ AllFiles'[n].pid = pathProcesses[k].pid)
                       => \E j \in DOMAIN pathProcesses : \E i \in DOMAIN Processes' :
                             /\ pathProcesses[j].Path = pathProcesses[k].Path
                             /\ InRuntime(Processes'[i], pathProcesses[j])]_vars

\* the parse returned a list with an entry, and the last line read was an
\* access by a pid that has no process record: none of the entries is its
C34_Witness ==
    /\ mode = "files" /\ pc = "done" /\ result = "trace"
    /\ AllFiles # <<>>
    /\ PathMatched(line)
    /\ nLines = MaxOwnerLines
    /\ \A i \in DOMAIN Processes : Processes[i].pid # line.pid
    /\ \A n \in DOMAIN AllFiles : AllFiles[n].pid # line.pid

\* ---- the fifo between Execute, its goroutine and strace ----
\* C35 as stated: Execute closes its write end of the fifo before it blocks on
\* doneCh, the goroutine's open of the fifo returns only while a write end
\* exists, and, strace exiting, Execute blocked on doneCh receives the result.
C35_MainReceives ==
    /\ [](main = "closing" => fw # "open")
    /\ [][(reader # "running" /\ reader' = "running" /\ pc' = "scan") => WriterExists]_vars
    /\ (main = "closing") ~> (main # "closing")

\* what holds of it: the two orderings, and the receive once the goroutine has
\* the fifo open
C35_ReceivesOnceOpened ==
    /\ [](main = "closing" => fw # "open")
    /\ [][(reader # "running" /\ reader' = "running" /\ pc' = "scan") => WriterExists]_vars
    /\ (main = "closing" /\ reader \notin {"opening", "blocked"}) ~> (main # "closing")

\* Execute waits for the goroutine, which waits in its open for a writer:
\* Execute's write end is closed and strace is gone
C35_BlockedInOpen ==
    /\ main = "closing" /\ reader = "blocked"
    /\ fw = "closed" /\ cmd = "exited"
    /\ doneCh.buf = <<>>

\* the goroutine has its result and is at the send
AtSend == reader = "running" /\ pc \in {"done", "error"}

\* C36: the goroutine is never kept waiting in its send: it sends once, into
\* an empty buffer of capacity 1, so once TraceExecveTimings has returned it
\* sends, closes the channel and finishes, also when Execute has returned on
\* an error and never receives.
C36_SendNeverBlocks ==
    /\ [](AtSend => ENABLED ReaderSend)
    /\ [](Len(doneCh.buf) <= 1)
    /\ [][(Len(doneCh'.buf) > Len(doneCh.buf)) => (AtSend /\ reader' = "sent")]_vars
    /\ [][(reader \in {"sent", "finished"}) =>
             (reader' \in {"sent", "finished"} /\ Len(doneCh'.buf) <= Len(doneCh.buf))]_vars
    /\ AtSend ~> (reader = "finished")

\* Execute returned before the command was started and never received; the
\* goroutine read end of file, sent its result and finished
C36_Witness ==
    /\ main = "returned" /\ cmd = "none" /\ slg = "nil"
    /\ reader = "finished" /\ doneCh.closed
    /\ Len(doneCh.buf) = 1
    /\ doneCh.buf[1].err = "cannot parse end of exec profile"

\* ---- the end of the file command ----
\* Execute leaves the parse with the error of TraceExecveWithFiles
AfterParseError == main = "parse" /\ pc = "error" /\ result = "nil" /\ main' # main

\* the error is logged, and the restore script run if there is one
ErrorLoggedAndRestored ==
    /\ Len(errs') > Len(errs)
    /\ errs'[Len(errs) + 1] = "cannot extract runtime data: " \o err
    /\ (currentCmd.RestoreScript # "") => call'.fn = "RunScript"

\* C37 as stated: when TraceExecveWithFiles returns an error and no result,
\* Execute logs the error, runs the restore script, writes its output and
\* returns without reading the absent result, with JSON and with tabular output.
C37_ErrorResultNotDereferenced ==
    [][AfterParseError => (ErrorLoggedAndRestored /\ main' = "returned")]_vars

\* what holds of it: the error is logged and the restore script run in both
\* modes; with JSON output the absent result is encoded and Execute returns;
\* with tabular output Display reads a field of the absent result
C37_OnlyJSONFinishes ==
    [][AfterParseError =>
          /\ ErrorLoggedAndRestored
          /\ IF currentCmd.JSONOutput
             THEN main' = "returned" /\ out'.printed /\ out'.rows = <<>>
             ELSE main' = "panicked" /\ out' = out]_vars

\* tabular output after a log that could not be parsed: the error is logged,
\* and Execute has not returned
C37_TabularPanics ==
    /\ main = "panicked" /\ ~currentCmd.JSONOutput
    /\ pc = "error" /\ result = "nil"
    /\ errs # <<>> /\ ~out.printed

\* ---- the restore script ----
\* C38 as stated: with a restore script configured, every run in which the
\* command was started has run the script when Execute returns, the runs that
\* end with the timeout of the window wait included.
C38_RestoreAfterEveryRun ==
    (main = "returned" /\ cmd # "none" /\ currentCmd.RestoreScript # "")
        => call = [fn |-> "RunScript", script |-> currentCmd.RestoreScript]

\* what holds of it in file mode: the script has run when Execute returns
\* from the end of the function, and has not when it returns on the timeout
C38_RestoreUnlessTimeout ==
    (main = "returned" /\ cmd # "none" /\ currentCmd.RestoreScript # "")
        => IF errorsIs(waitErr, DeadlineExceeded)
           THEN call = [fn |-> "none"]
           ELSE call = [fn |-> "RunScript", script |-> currentCmd.RestoreScript]

\* the wait timed out, the command was killed, and Execute returned without
\* running the configured script
C38_TimeoutSkipsRestore ==
    /\ main = "returned" /\ ctx = "expired" /\ cmd = "killed"
    /\ currentCmd.RestoreScript = "restore.sh"
    /\ call = [fn |-> "none"]

\* exec mode: the trace could not be parsed after the command ran, and
\* Execute returned the error without running the configured script
C38_ParseFailureSkipsRestore ==
    /\ main = "returned" /\ cmd = "exited" /\ reader = "finished"
    /\ pc = "error" /\ nLines > 0
    /\ currentCmd.RestoreScript = "restore.sh"
    /\ call = [fn |-> "none"]
====
